---- MODULE Spec2Model ----
(***************************************************************************)
(* Game of Life engine: Board (src/GameOfLife/board.py), the built-in      *)
(* rules (src/GameOfLife/rules.py), the rule registry                      *)
(* (src/GameOfLife/metaprogramming.py) and the Simulator                   *)
(* (src/GameOfLife/simulator.py).                                          *)
(*                                                                         *)
(* Python objects live in a heap: a Board is a record whose grid is a list *)
(* of references to row lists, so that aliasing between boards is          *)
(* something the model can express.  Rows and columns are 0-based as in    *)
(* the source; Python lists that grow (history, previous_states, the heap) *)
(* are TLA+ sequences, so list index i is sequence index i + 1.            *)
(***************************************************************************)
EXTENDS Integers, Sequences, FiniteSets, TLC

VARIABLES heap, registry, sims, pc, frame, ret, callback_log

vars == <<heap, registry, sims, pc, frame, ret, callback_log>>

(***************************************************************************)
(* Bounds of the exploration.                                              *)
(***************************************************************************)
\* Rule calls: every board of at most MaxCells cells, generation 0..MaxGeneration.
MaxCells == 9
MaxGeneration == 1
\* Simulator runs: no board is allocated once the heap holds MaxBoards boards.
MaxBoards == 6
\* run(generations) and run_until_stable(max_generations) with 0..MaxGenArg.
MaxGenArg == 2
MaxCheckPeriod == 3
\* The long runs of run_until_stable: as MaxBoards.
MaxBoardsLong == 104

(***************************************************************************)
(* Program constants.                                                      *)
(***************************************************************************)
\* Simulator.__init__: self.max_generations = 10000
MAX_GENERATIONS == 10000
\* Simulator.run_until_stable: previous_states[-100:]
WINDOW == 100

(***************************************************************************)
(* Board                                                                   *)
(***************************************************************************)
\* Board.__init__, lines 33-36: a fresh outer list of fresh zero rows.
Board_init(h, width, height) ==
    LET base == Len(h.rows)
        newRows == [i \in 1..height |-> [c \in 0..(width - 1) |-> 0]]
        b == [width |-> width, height |-> height,
              grid |-> [r \in 0..(height - 1) |-> base + r + 1],
              generation |-> 0]
    IN [heap |-> [rows |-> h.rows \o newRows, boards |-> Append(h.boards, b)],
        ref |-> Len(h.boards) + 1]

\* self.grid[row][col]
Cell(h, b, row, col) == h.rows[h.boards[b].grid[row]][col]

\* The cells of a board as a value: row -> col -> 0/1.
GridOf(h, b) ==
    [r \in 0..(h.boards[b].height - 1) |-> h.rows[h.boards[b].grid[r]]]

InBounds(h, b, row, col) ==
    /\ 0 <= row /\ row < h.boards[b].height
    /\ 0 <= col /\ col < h.boards[b].width

\* Board.set_cell, line 56 (the write itself; the two checks are SetCellError).
set_cell(h, b, row, col, value) ==
    [h EXCEPT !.rows[h.boards[b].grid[row]][col] = value]

\* As get_cell, but a position outside the board reads the nearest cell of it.
get_cell_clamped(h, b, row, col) ==
    LET clamp(x, n) == IF x < 0 THEN 0 ELSE IF x >= n THEN n - 1 ELSE x
    IN Cell(h, b, clamp(row, h.boards[b].height), clamp(col, h.boards[b].width))

\* Board.get_cell
get_cell(h, b, row, col) ==
    IF ~InBounds(h, b, row, col) THEN 0 ELSE Cell(h, b, row, col)

Offsets == <<-1, 0, 1>>

\* As count_neighbors_from, but without the skip of the cell itself.
count_neighbors_with_self(h, b, row, col, k) ==
    Cardinality({j \in k..8 :
        /\ InBounds(h, b, row + Offsets[(j \div 3) + 1], col + Offsets[(j % 3) + 1])
        /\ Cell(h, b, row + Offsets[(j \div 3) + 1], col + Offsets[(j % 3) + 1]) = 1})

\* Board.count_neighbors: the dr/dc double loop, k = 3 * (index of dr) + (index of dc).
RECURSIVE count_neighbors_from(_, _, _, _, _)
count_neighbors_from(h, b, row, col, k) ==
    IF k > 8 THEN 0
    ELSE LET dr == Offsets[(k \div 3) + 1]
             dc == Offsets[(k % 3) + 1]
             neighbor_row == row + dr
             neighbor_col == col + dc
             rest == count_neighbors_from(h, b, row, col, k + 1)
         IN IF dr = 0 /\ dc = 0 THEN rest
            ELSE IF InBounds(h, b, neighbor_row, neighbor_col)
                 THEN Cell(h, b, neighbor_row, neighbor_col) + rest
                 ELSE rest

\* As count_neighbors, but on a wrapped grid: a neighbour beyond an edge is
\* the cell at the opposite edge.
count_neighbors_torus(h, b, row, col) ==
    LET at(k) == Cell(h, b, (row + Offsets[(k \div 3) + 1]) % h.boards[b].height,
                            (col + Offsets[(k % 3) + 1]) % h.boards[b].width)
    IN at(0) + at(1) + at(2) + at(3) + at(5) + at(6) + at(7) + at(8)

count_neighbors(h, b, row, col) == count_neighbors_from(h, b, row, col, 0)

RECURSIVE SumSeq(_, _)
SumSeq(f, n) == IF n < 0 THEN 0 ELSE f[n] + SumSeq(f, n - 1)

\* Board.count_alive: sum(sum(row) for row in self.grid)
count_alive(h, b) ==
    LET rowSum == [r \in 0..(h.boards[b].height - 1) |->
                      SumSeq(h.rows[h.boards[b].grid[r]], h.boards[b].width - 1)]
    IN SumSeq(rowSum, h.boards[b].height - 1)

\* [row[:] for row in board.grid]: a fresh list of fresh rows, held by value.
CopyGrid(h, b) == GridOf(h, b)

\* As copy, but the new board takes over the row lists of the source
\* (new_board.grid = list(self.grid), a shallow copy).
copy_shallow(h, b) ==
    LET src == h.boards[b]
        ref == Len(h.boards) + 1
    IN [heap |-> [h EXCEPT !.boards = Append(@, src)], ref |-> ref]

\* Board.copy
copy(h, b) ==
    LET src == h.boards[b]
        nb == Board_init(h, src.width, src.height)
        base == Len(h.rows)
        filled == [nb.heap EXCEPT
                     !.rows = [i \in 1..Len(nb.heap.rows) |->
                                 IF i > base THEN h.rows[src.grid[i - base - 1]]
                                 ELSE nb.heap.rows[i]],
                     !.boards[nb.ref].generation = src.generation]
    IN [heap |-> filled, ref |-> nb.ref]

(***************************************************************************)
(* Rules                                                                   *)
(***************************************************************************)
RuleClasses == {"StandardRules", "HighLifeRules", "DayAndNightRules"}

\* As StandardCell, but with no death by underpopulation (neighbors <= 3).
StandardCellNoUnderpopulation(h, dst, row, col, current_state, neighbors) ==
    IF current_state = 1
    THEN IF neighbors <= 3
         THEN set_cell(h, dst, row, col, 1)
         ELSE set_cell(h, dst, row, col, 0)
    ELSE IF neighbors = 3
         THEN set_cell(h, dst, row, col, 1)
         ELSE set_cell(h, dst, row, col, 0)

\* StandardRules.evolve, lines 44-55: every cell is written, 1 or 0.
StandardCell(h, dst, row, col, current_state, neighbors) ==
    IF current_state = 1
    THEN IF neighbors \in {2, 3}
         THEN set_cell(h, dst, row, col, 1)
         ELSE set_cell(h, dst, row, col, 0)
    ELSE IF neighbors = 3
         THEN set_cell(h, dst, row, col, 1)
         ELSE set_cell(h, dst, row, col, 0)

\* HighLifeRules.evolve, lines 80-85: only births and survivals are written.
HighLifeCell(h, dst, row, col, current_state, neighbors) ==
    IF current_state = 1
    THEN IF neighbors \in {2, 3} THEN set_cell(h, dst, row, col, 1) ELSE h
    ELSE IF neighbors \in {3, 6} THEN set_cell(h, dst, row, col, 1) ELSE h

\* DayAndNightRules.evolve, lines 110-115.
DayAndNightCell(h, dst, row, col, current_state, neighbors) ==
    IF current_state = 1
    THEN IF neighbors \in {3, 4, 6, 7, 8} THEN set_cell(h, dst, row, col, 1) ELSE h
    ELSE IF neighbors \in {3, 6, 7, 8} THEN set_cell(h, dst, row, col, 1) ELSE h

ApplyCell(cls, h, dst, row, col, current_state, neighbors) ==
    CASE cls = "StandardRules" -> StandardCell(h, dst, row, col, current_state, neighbors)
      [] cls = "HighLifeRules" -> HighLifeCell(h, dst, row, col, current_state, neighbors)
      [] cls = "DayAndNightRules" -> DayAndNightCell(h, dst, row, col, current_state, neighbors)

\* As ReadBoard, but reading the board being written (an in-place update).
ReadBoardInPlace(src, dst) == dst

\* evolve, lines 40-41: board.get_cell / board.count_neighbors read the input.
ReadBoard(src, dst) == src

\* The inner loop of evolve, for col in range(board.width), on one row: the
\* heap after the write of a cell is bound as a value, then the loop goes on
\* from it.
RECURSIVE EvolveRow(_, _, _, _, _, _)
EvolveRow(cls, h, src, dst, row, col) ==
    IF col >= h.boards[src].width THEN h
    ELSE LET current_state == get_cell(h, ReadBoard(src, dst), row, col)
             neighbors == count_neighbors(h, ReadBoard(src, dst), row, col)
         IN CHOOSE out \in
               {EvolveRow(cls, written, src, dst, row, col + 1) : written \in
                   {ApplyCell(cls, h, dst, row, col, current_state, neighbors)}} :
               TRUE

\* The outer loop of evolve, for row in range(board.height): the heap after a
\* row is bound as a value, then the loop goes on with the next row.
RECURSIVE EvolveLoop(_, _, _, _, _)
EvolveLoop(cls, h, src, dst, row) ==
    IF row >= h.boards[src].height THEN h
    ELSE CHOOSE out \in
            {EvolveLoop(cls, done, src, dst, row + 1) : done \in
                {EvolveRow(cls, h, src, dst, row, 0)}} :
            TRUE

\* As evolve, but the new board takes over the row lists of the input
\* (new_board.grid = board.grid).
evolve_aliased(cls, h, board) ==
    LET nb == Board_init(h, h.boards[board].width, h.boards[board].height)
        h1 == [nb.heap EXCEPT !.boards[nb.ref].generation =
                                  h.boards[board].generation + 1,
                              !.boards[nb.ref].grid = h.boards[board].grid]
    IN [heap |-> EvolveLoop(cls, h1, board, nb.ref, 0), ref |-> nb.ref]

\* <Rule>.evolve(board): new Board, generation + 1, then the cell loop.
evolve(cls, h, board) ==
    LET nb == Board_init(h, h.boards[board].width, h.boards[board].height)
        h1 == [nb.heap EXCEPT !.boards[nb.ref].generation =
                                  h.boards[board].generation + 1]
    IN [heap |-> EvolveLoop(cls, h1, board, nb.ref, 0), ref |-> nb.ref]

(***************************************************************************)
(* Rule registry: cls._rules, a dict in insertion order.                   *)
(***************************************************************************)
BuiltinRules ==
    << [name |-> "standard", rule_class |-> "StandardRules"],
       [name |-> "highlife", rule_class |-> "HighLifeRules"],
       [name |-> "day_and_night", rule_class |-> "DayAndNightRules"] >>


(***************************************************************************)
(* Simulator                                                               *)
(***************************************************************************)
HasRule(reg, name) == \E i \in 1..Len(reg) : reg[i].name = name

\* RuleRegistry.get_rule, the found case: cls._rules[name]
get_rule(reg, name) ==
    reg[CHOOSE i \in 1..Len(reg) : reg[i].name = name].rule_class

\* Simulator.__init__
Simulator_init(reg, board, rule_name) ==
    [board |-> board,
     rule_class |-> get_rule(reg, rule_name),
     rule_name |-> rule_name,
     history |-> << >>,
     max_generations |-> MAX_GENERATIONS]

\* As step, but the evolved cells and generation are written into the board
\* the simulator holds, which stays the same object.
step_in_place(h, sim) ==
    LET e == evolve(sim.rule_class, h, sim.board)
        own == h.boards[sim.board].grid
    IN [heap |-> [e.heap EXCEPT
                    !.rows = [i \in DOMAIN e.heap.rows |->
                                IF \E r \in DOMAIN own : own[r] = i
                                THEN e.heap.rows[e.heap.boards[e.ref].grid[
                                        CHOOSE r \in DOMAIN own : own[r] = i]]
                                ELSE e.heap.rows[i]],
                    !.boards[sim.board].generation = @ + 1],
        sim |-> sim]

\* As step, but with the rule looked up in the registry, by the name the
\* simulator was constructed with, at every step.
step_late_bound(h, sim) ==
    LET e == evolve(get_rule(registry, sim.rule_name), h, sim.board)
    IN [heap |-> e.heap, sim |-> [sim EXCEPT !.board = e.ref]]

\* Simulator.step: self.board = self.rule_class.evolve(self.board)
step(h, sim) ==
    LET e == evolve(sim.rule_class, h, sim.board)
    IN [heap |-> e.heap, sim |-> [sim EXCEPT !.board = e.ref]]

\* As Overflows, but refusing the limit itself.
OverflowsAtLimit(generations, max_generations) == generations >= max_generations

\* Simulator.run, line 64
Overflows(generations, max_generations) == generations > max_generations

\* Simulator.run_until_stable, line 128: previous_states[-100:]
Window(previous_states) ==
    SubSeq(previous_states,
           IF Len(previous_states) > WINDOW THEN Len(previous_states) - WINDOW + 1 ELSE 1,
           Len(previous_states))

\* Simulator.run_until_stable, lines 128-130: the first i of enumerate(window)
\* whose state equals the grid; -1 when the loop finds none.
FirstMatch(window, grid) ==
    IF \E j \in 1..Len(window) : window[j] = grid
    THEN (CHOOSE j \in 1..Len(window) :
             /\ window[j] = grid
             /\ \A k \in 1..(j - 1) : window[k] # grid) - 1
    ELSE -1

\* Simulator.run_until_stable, line 130
Period(previous_states, i) == Len(previous_states) - i

\* As Checked, but with every iteration a checked one.
CheckedAlways(gen, check_period) == TRUE

\* Simulator.run_until_stable, line 127
Checked(gen, check_period) == gen % check_period = 0

\* As InRange, but with one more iteration (range(n + 1)).
InRangeInclusive(gen, n) == gen <= n

\* for gen in range(n): the loop body runs while gen < n
InRange(gen, n) == gen < n

\* As Extinct, but never seeing an empty board.
NeverExtinct(h, board) == FALSE

\* self.board.count_alive() == 0
Extinct(h, board) == count_alive(h, board) = 0

\* As Classify, but with the still-life test ahead of the extinction test.
ClassifyStillFirst(h, board, prev_grid, gen, check_period, previous_states) ==
    LET grid == GridOf(h, board)
        i == FirstMatch(Window(previous_states), grid)
    IN IF grid = prev_grid
       THEN [stability |-> "still_life", period |-> 0]
       ELSE IF Extinct(h, board)
       THEN [stability |-> "extinction", period |-> 0]
       ELSE IF Checked(gen, check_period) /\ i >= 0
       THEN [stability |-> "oscillator_period",
             period |-> Period(previous_states, i)]
       ELSE [stability |-> "none", period |-> 0]

\* Simulator.run_until_stable, lines 119-132: the checks after a step, in
\* order; "none" when the iteration returns nothing.
Classify(h, board, prev_grid, gen, check_period, previous_states) ==
    LET grid == GridOf(h, board)
        i == FirstMatch(Window(previous_states), grid)
    IN IF Extinct(h, board)
       THEN [stability |-> "extinction", period |-> 0]
       ELSE IF grid = prev_grid
       THEN [stability |-> "still_life", period |-> 0]
       ELSE IF Checked(gen, check_period) /\ i >= 0
       THEN [stability |-> "oscillator_period",
             period |-> Period(previous_states, i)]
       ELSE [stability |-> "none", period |-> 0]

(***************************************************************************)
(* Inputs                                                                  *)
(***************************************************************************)
EmptyHeap == [rows |-> << >>, boards |-> << >>]

AllGrids(width, height) == [0..(height - 1) -> [0..(width - 1) -> {0, 1}]]

\* A board constructed with Board(width, height) whose cells were then set to g.
HeapWithBoard(width, height, g) ==
    LET nb == Board_init(EmptyHeap, width, height)
    IN [nb.heap EXCEPT !.rows = [i \in 1..height |-> g[i - 1]]]

NoFrame == [op |-> "none"]
NoRet == [kind |-> "none", op |-> "none"]

(***************************************************************************)
(* Direct use of a rule class: <Rule>.evolve(board) on any board.          *)
(***************************************************************************)
Shapes == {wh \in (1..MaxCells) \X (1..MaxCells) : wh[1] * wh[2] <= MaxCells}

InitRules ==
    /\ \E wh \in Shapes, generation \in 0..MaxGeneration :
         \E g \in AllGrids(wh[1], wh[2]) :
            heap = [HeapWithBoard(wh[1], wh[2], g) EXCEPT
                       !.boards[1].generation = generation]
    /\ registry = BuiltinRules
    /\ sims = << >>
    /\ pc = "Ready"
    /\ frame = NoFrame
    /\ ret = NoRet
    /\ callback_log = << >>

EvolveCall(cls, board) ==
    /\ pc = "Ready"
    /\ LET e == evolve(cls, heap, board)
       IN /\ heap' = e.heap
          /\ ret' = [kind |-> "return", op |-> "evolve", rule_class |-> cls,
                     arg |-> board, value |-> e.ref]
    /\ UNCHANGED <<registry, sims, pc, frame, callback_log>>

\* Each rule applied to the board as given.
NextRules ==
    \E cls \in RuleClasses : Len(heap.boards) = 1 /\ EvolveCall(cls, 1)

SpecRules == InitRules /\ [][NextRules]_vars

(***************************************************************************)
(* A Simulator constructed on a board, driven through its public methods.  *)
(* run and run_until_stable advance one loop iteration per action; the     *)
(* frame holds the locals of the call in progress.  frame.trace (the grid  *)
(* at the call and after each step) and frame.initial_generation are       *)
(* history variables of the verification, not state of the program.        *)
(***************************************************************************)
AliveCells(g) ==
    {rc \in (DOMAIN g) \X (DOMAIN g[0]) : g[rc[1]][rc[2]] = 1}

GridFromCells(width, height, cells) ==
    [r \in 0..(height - 1) |-> [c \in 0..(width - 1) |->
        IF <<r, c>> \in cells THEN 1 ELSE 0]]

\* The boards the simulator is constructed on: empty, a single cell, a
\* diagonal, an L, a block, a blinker, a plus and a bent line, each 3x3.
SimBoards ==
    { [width |-> 3, height |-> 3, cells |-> cs] : cs \in
        { {},
          {<<1, 1>>},
          {<<0, 0>>, <<1, 1>>, <<2, 2>>},
          {<<0, 0>>, <<0, 1>>, <<1, 0>>},
          {<<0, 0>>, <<0, 1>>, <<1, 0>>, <<1, 1>>},
          {<<1, 0>>, <<1, 1>>, <<1, 2>>},
          {<<0, 1>>, <<1, 0>>, <<1, 1>>, <<1, 2>>, <<2, 1>>},
          {<<0, 1>>, <<1, 1>>, <<1, 2>>, <<2, 0>>} } }

RuleNames == {registry[i].name : i \in 1..Len(registry)}

OptInt == {<< >>} \cup {<<m>> : m \in 0..MaxGenArg}

\* board = Board(width, height), cells set; sim = Simulator(board, name)
InitSim(boards) ==
    /\ \E b \in boards :
         heap = HeapWithBoard(b.width, b.height,
                              GridFromCells(b.width, b.height, b.cells))
    /\ registry = BuiltinRules
    /\ \E i \in 1..Len(BuiltinRules) :
          sims = << Simulator_init(BuiltinRules, 1, BuiltinRules[i].name) >>
    /\ pc = "Ready"
    /\ frame = NoFrame
    /\ ret = NoRet
    /\ callback_log = << >>

Init == InitSim(SimBoards)

\* board.set_cell(row, col, value) on a board, the accepted case
SetCell(board, row, col, value) ==
    /\ pc = "Ready"
    /\ InBounds(heap, board, row, col)
    /\ value \in {0, 1}
    /\ heap' = set_cell(heap, board, row, col, value)
    /\ ret' = [kind |-> "return", op |-> "set_cell", board |-> board]
    /\ callback_log' = << >>
    /\ UNCHANGED <<registry, sims, pc, frame>>

\* sim.step()
Step(s, cap) ==
    /\ pc = "Ready"
    /\ Len(heap.boards) < cap
    /\ LET st == step(heap, sims[s])
       IN /\ heap' = st.heap
          /\ sims' = [sims EXCEPT ![s] = st.sim]
          /\ ret' = [kind |-> "return", op |-> "step", sim |-> s,
                     value |-> st.sim.board]
    /\ callback_log' = << >>
    /\ UNCHANGED <<registry, pc, frame>>

\* sim.run(generations, callback, save_history), lines 64-72
RunCall(s, generations, callback, save_history, cap) ==
    /\ pc = "Ready"
    /\ save_history => Len(heap.boards) < cap
    /\ IF Overflows(generations, sims[s].max_generations)
       THEN /\ ret' = [kind |-> "raise", op |-> "run", sim |-> s,
                       error |-> "SimulationOverflowError",
                       generations |-> generations]
            /\ UNCHANGED <<heap, sims, pc, frame, callback_log>>
       ELSE LET cp == copy(heap, sims[s].board)
            IN /\ heap' = IF save_history THEN cp.heap ELSE heap
               /\ sims' = IF save_history
                          THEN [sims EXCEPT ![s].history = <<cp.ref>>]
                          ELSE sims
               /\ pc' = "run"
               /\ frame' = [op |-> "run", sim |-> s, generations |-> generations,
                            callback |-> callback, save_history |-> save_history,
                            gen |-> 0, brk |-> FALSE,
                            initial_generation |-> heap.boards[sims[s].board].generation,
                            trace |-> <<GridOf(heap, sims[s].board)>>]
               /\ ret' = [kind |-> "pending", op |-> "run", sim |-> s]
               /\ callback_log' = << >>
    /\ UNCHANGED registry

\* As RunIter, but with the callback called after the snapshot is appended.
RunIter_callback_last(cap) ==
    /\ pc = "run"
    /\ ~frame.brk
    /\ InRange(frame.gen, frame.generations)
    /\ Len(heap.boards) < cap
    /\ LET s == frame.sim
           st == step(heap, sims[s])
           cp == copy(st.heap, st.sim.board)
           h2 == IF frame.save_history THEN cp.heap ELSE st.heap
           sim2 == IF frame.save_history
                   THEN [st.sim EXCEPT !.history = Append(@, cp.ref)]
                   ELSE st.sim
       IN /\ callback_log' =
                IF frame.callback
                THEN Append(callback_log,
                            [board |-> st.sim.board, gen |-> frame.gen + 1,
                             generation |-> st.heap.boards[st.sim.board].generation,
                             history_len |-> Len(sim2.history)])
                ELSE callback_log
          /\ heap' = h2
          /\ sims' = [sims EXCEPT ![s] = sim2]
          /\ frame' = [frame EXCEPT
                         !.gen = @ + 1,
                         !.brk = Extinct(h2, sim2.board),
                         !.trace = Append(@, GridOf(h2, sim2.board))]
    /\ UNCHANGED <<registry, pc, ret>>

\* One iteration of the loop of run, lines 74-86
RunIter(cap) ==
    /\ pc = "run"
    /\ ~frame.brk
    /\ InRange(frame.gen, frame.generations)
    /\ Len(heap.boards) < cap
    /\ LET s == frame.sim
           st == step(heap, sims[s])
           cp == copy(st.heap, st.sim.board)
           h2 == IF frame.save_history THEN cp.heap ELSE st.heap
           sim2 == IF frame.save_history
                   THEN [st.sim EXCEPT !.history = Append(@, cp.ref)]
                   ELSE st.sim
       IN /\ callback_log' =
                IF frame.callback
                THEN Append(callback_log,
                            [board |-> st.sim.board, gen |-> frame.gen + 1,
                             generation |-> st.heap.boards[st.sim.board].generation,
                             history_len |-> Len(st.sim.history)])
                ELSE callback_log
          /\ heap' = h2
          /\ sims' = [sims EXCEPT ![s] = sim2]
          /\ frame' = [frame EXCEPT
                         !.gen = @ + 1,
                         !.brk = Extinct(h2, sim2.board),
                         !.trace = Append(@, GridOf(h2, sim2.board))]
    /\ UNCHANGED <<registry, pc, ret>>

\* run, lines 88-90: after the loop ended or was left by break
RunReturn ==
    /\ pc = "run"
    /\ frame.brk \/ ~InRange(frame.gen, frame.generations)
    /\ pc' = "Ready"
    /\ ret' = [kind |-> "return", op |-> "run", sim |-> frame.sim,
               value |-> sims[frame.sim].board]
    /\ frame' = NoFrame
    /\ UNCHANGED <<heap, registry, sims, callback_log>>

\* As RunUntilStableCall, but with the grid the call starts from recorded as
\* the first snapshot.
RunUntilStableCall_start_recorded(s, max_generations, check_period) ==
    /\ pc = "Ready"
    /\ pc' = "run_until_stable"
    /\ frame' = [op |-> "run_until_stable", sim |-> s,
                 max_generations |-> IF max_generations = << >>
                                     THEN sims[s].max_generations
                                     ELSE max_generations[1],
                 check_period |-> check_period,
                 gen |-> 0,
                 previous_states |-> <<CopyGrid(heap, sims[s].board)>>,
                 initial_generation |-> heap.boards[sims[s].board].generation,
                 trace |-> <<GridOf(heap, sims[s].board)>>]
    /\ ret' = [kind |-> "pending", op |-> "run_until_stable", sim |-> s]
    /\ UNCHANGED <<heap, registry, sims, callback_log>>

\* sim.run_until_stable(max_generations, check_period), lines 109-112
RunUntilStableCall(s, max_generations, check_period) ==
    /\ pc = "Ready"
    /\ pc' = "run_until_stable"
    /\ frame' = [op |-> "run_until_stable", sim |-> s,
                 max_generations |-> IF max_generations = << >>
                                     THEN sims[s].max_generations
                                     ELSE max_generations[1],
                 check_period |-> check_period,
                 gen |-> 0,
                 previous_states |-> << >>,
                 initial_generation |-> heap.boards[sims[s].board].generation,
                 trace |-> <<GridOf(heap, sims[s].board)>>]
    /\ ret' = [kind |-> "pending", op |-> "run_until_stable", sim |-> s]
    /\ UNCHANGED <<heap, registry, sims, callback_log>>

\* The tuple run_until_stable returns: (self.board, stability); the text
\* f"oscillator_period_{period}" is kept as the pair (stability, period).
RusReturn(s, stability, period) ==
    [kind |-> "return", op |-> "run_until_stable", sim |-> s,
     value |-> sims'[s].board, stability |-> stability, period |-> period]

\* One iteration of the loop of run_until_stable, lines 114-134
RunUntilStableIter(cap) ==
    /\ pc = "run_until_stable"
    /\ InRange(frame.gen, frame.max_generations)
    /\ Len(heap.boards) < cap
    /\ \E st \in {step(heap, sims[frame.sim])} :
       LET s == frame.sim
           prev_grid == CopyGrid(heap, sims[s].board)
           c == Classify(st.heap, st.sim.board, prev_grid, frame.gen,
                         frame.check_period, frame.previous_states)
       IN /\ heap' = st.heap
          /\ sims' = [sims EXCEPT ![s] = st.sim]
          /\ IF c.stability # "none"
             THEN /\ ret' = RusReturn(s, c.stability, c.period)
                  /\ pc' = "Ready"
                  /\ frame' = NoFrame
             ELSE /\ frame' = [frame EXCEPT
                                 !.gen = @ + 1,
                                 !.previous_states =
                                     IF Checked(frame.gen, frame.check_period)
                                     THEN Append(@, CopyGrid(st.heap, st.sim.board))
                                     ELSE @,
                                 !.trace = Append(@, GridOf(st.heap, st.sim.board))]
                  /\ UNCHANGED <<pc, ret>>
    /\ UNCHANGED <<registry, callback_log>>

\* run_until_stable, line 136: the loop ran out
RunUntilStableExhausted ==
    /\ pc = "run_until_stable"
    /\ ~InRange(frame.gen, frame.max_generations)
    /\ pc' = "Ready"
    /\ UNCHANGED <<heap, registry, sims, callback_log>>
    /\ ret' = RusReturn(frame.sim, "max_generations_reached", 0)
    /\ frame' = NoFrame

\* As reset, but the recorded history is kept.
Reset_keeps_history(s, board) ==
    /\ pc = "Ready"
    /\ sims' = [sims EXCEPT ![s].board = IF board # 0 THEN board ELSE @]
    /\ ret' = [kind |-> "return", op |-> "reset", sim |-> s, arg |-> board]
    /\ callback_log' = << >>
    /\ UNCHANGED <<heap, registry, pc, frame>>

\* sim.reset(board)
Reset(s, board) ==
    /\ pc = "Ready"
    /\ sims' = [sims EXCEPT ![s].board = IF board # 0 THEN board ELSE @,
                            ![s].history = << >>]
    /\ ret' = [kind |-> "return", op |-> "reset", sim |-> s, arg |-> board]
    /\ callback_log' = << >>
    /\ UNCHANGED <<heap, registry, pc, frame>>

\* The cells the driver writes to on the simulator's board.
WriteCells == {<<0, 0>>}

RunArgs == (0..MaxGenArg) \cup {MAX_GENERATIONS, MAX_GENERATIONS + 1}

\* The simulator driven through step and run.
NextRun ==
    \/ \E s \in DOMAIN sims : Step(s, MaxBoards)
    \/ \E s \in DOMAIN sims, generations \in RunArgs,
          callback \in BOOLEAN, save_history \in BOOLEAN :
          RunCall(s, generations, callback, save_history, MaxBoards)
    \/ RunIter(MaxBoards)
    \/ RunReturn

SpecRun == Init /\ [][NextRun]_vars

\* The simulator recording its history in run, then stepped and written to.
NextHistory ==
    \/ \E s \in DOMAIN sims : Step(s, MaxBoards)
    \/ \E s \in DOMAIN sims, generations \in 0..MaxGenArg :
          RunCall(s, generations, FALSE, TRUE, MaxBoards)
    \/ RunIter(MaxBoards)
    \/ RunReturn
    \/ \E s \in DOMAIN sims, rc \in WriteCells, value \in {0, 1} :
          sims[s].history # << >> /\ SetCell(sims[s].board, rc[1], rc[2], value)

SpecHistory == Init /\ [][NextHistory]_vars

\* The simulator driven through run_until_stable.
NextStable ==
    \/ \E s \in DOMAIN sims, max_generations \in OptInt,
          check_period \in 1..MaxCheckPeriod :
          RunUntilStableCall(s, max_generations, check_period)
    \/ RunUntilStableIter(MaxBoards)
    \/ RunUntilStableExhausted

SpecStable == Init /\ [][NextStable]_vars

\* run_until_stable runs to its return once called: its loop has no wait in
\* it, so an iteration that can be taken is taken.
SpecStableFair ==
    /\ Init
    /\ [][NextStable]_vars
    /\ WF_vars(RunUntilStableIter(MaxBoards))
    /\ WF_vars(RunUntilStableExhausted)

(***************************************************************************)
(* Long runs of run_until_stable: two 8x8 boards under the standard rule   *)
(* that reach a period-2 oscillator after 100 and after 99 generations.    *)
(***************************************************************************)
LongBoards ==
    { [width |-> 8, height |-> 8,
       cells |-> {<<0, 3>>, <<0, 4>>, <<2, 1>>, <<2, 2>>, <<2, 4>>, <<2, 6>>,
                  <<3, 0>>, <<3, 2>>, <<3, 6>>, <<4, 0>>, <<4, 1>>}],
      [width |-> 8, height |-> 8,
       cells |-> {<<1, 2>>, <<1, 4>>, <<1, 5>>, <<2, 1>>, <<2, 2>>, <<2, 3>>,
                  <<2, 5>>, <<3, 0>>, <<3, 2>>, <<3, 3>>, <<3, 5>>, <<4, 0>>,
                  <<4, 1>>}] }

InitLong == InitSim(LongBoards) /\ sims[1].rule_name = "standard"

NextLong ==
    \/ \E s \in DOMAIN sims, max_generations \in {<< >>, <<0>>},
          check_period \in 1..MaxCheckPeriod :
          RunUntilStableCall(s, max_generations, check_period)
    \/ RunUntilStableIter(MaxBoardsLong)
    \/ RunUntilStableExhausted

SpecLong == InitLong /\ [][NextLong]_vars

(***************************************************************************)
(* Properties                                                              *)
(***************************************************************************)
Survive(cls) ==
    CASE cls = "StandardRules" -> {2, 3}
      [] cls = "HighLifeRules" -> {2, 3}
      [] cls = "DayAndNightRules" -> {3, 4, 6, 7, 8}

Birth(cls) ==
    CASE cls = "StandardRules" -> {3}
      [] cls = "HighLifeRules" -> {3, 6}
      [] cls = "DayAndNightRules" -> {3, 6, 7, 8}

Abs(x) == IF x < 0 THEN -x ELSE x

\* The live Moore neighbours of (r, c) inside the grid g, as a set of positions.
LiveNeighbours(g, r, c) ==
    {rc \in AliveCells(g) :
        /\ rc # <<r, c>>
        /\ Abs(rc[1] - r) <= 1
        /\ Abs(rc[2] - c) <= 1}

\* The state the table of the variant gives cell (r, c) of grid g.
TableCell(cls, g, r, c) ==
    LET n == Cardinality(LiveNeighbours(g, r, c))
    IN IF \/ g[r][c] = 1 /\ n \in Survive(cls)
          \/ g[r][c] = 0 /\ n \in Birth(cls)
       THEN 1 ELSE 0

\* This step is a call <Rule>.evolve(board).
IsEvolveCall == ret'.op = "evolve" /\ heap' # heap

RowRefs(h, b) == {h.boards[b].grid[r] : r \in DOMAIN h.boards[b].grid}

\* C1: under each built-in rule, a cell of evolve(grid) is ALIVE exactly when
\* it was alive with a live-neighbour count in the variant's survive set or
\* dead with a count in its birth set, counts taken from the input grid as it
\* was before the call; every other cell is DEAD.
C1_EvolveFollowsTable ==
    [][IsEvolveCall =>
         LET g == GridOf(heap, ret'.arg)
         IN \A r \in DOMAIN g : \A c \in DOMAIN g[r] :
               Cell(heap', ret'.value, r, c) = TableCell(ret'.rule_class, g, r, c)]_vars

\* A HighLife call in which a dead cell with six live neighbours was born.
C1_Witness ==
    /\ ret.op = "evolve"
    /\ ret.rule_class = "HighLifeRules"
    /\ \E r \in 0..(heap.boards[ret.arg].height - 1),
          c \in 0..(heap.boards[ret.arg].width - 1) :
          /\ Cell(heap, ret.arg, r, c) = 0
          /\ Cardinality(LiveNeighbours(GridOf(heap, ret.arg), r, c)) = 6
          /\ Cell(heap, ret.value, r, c) = 1

\* C2: evolve leaves the input board (cells, dimensions, generation) and every
\* other existing object unchanged and returns a new board that shares no row
\* with the input, has the same width and height and generation + 1.
C2_EvolveReturnsFreshBoard ==
    [][IsEvolveCall =>
         LET src == ret'.arg
             dst == ret'.value
         IN /\ \A b \in DOMAIN heap.boards : heap'.boards[b] = heap.boards[b]
            /\ \A i \in DOMAIN heap.rows : heap'.rows[i] = heap.rows[i]
            /\ dst \notin DOMAIN heap.boards
            /\ dst \in DOMAIN heap'.boards
            /\ RowRefs(heap', dst) \cap RowRefs(heap', src) = {}
            /\ \A b \in DOMAIN heap.boards : RowRefs(heap', dst) \cap RowRefs(heap', b) = {}
            /\ Cardinality(RowRefs(heap', dst)) = heap'.boards[dst].height
            /\ heap'.boards[dst].width = heap.boards[src].width
            /\ heap'.boards[dst].height = heap.boards[src].height
            /\ \A r \in DOMAIN heap'.boards[dst].grid :
                  DOMAIN heap'.rows[heap'.boards[dst].grid[r]]
                     = 0..(heap.boards[src].width - 1)
            /\ heap'.boards[dst].generation = heap.boards[src].generation + 1]_vars

\* A call on a board of generation 1 whose result differs from its input.
C2_Witness ==
    /\ ret.op = "evolve"
    /\ heap.boards[ret.arg].generation = 1
    /\ heap.boards[ret.value].generation = 2
    /\ GridOf(heap, ret.value) # GridOf(heap, ret.arg)

\* This step is the return of run_until_stable with a classification made
\* in the loop body (a step was applied, then the call returned).
IsClassified == pc = "run_until_stable" /\ pc' = "Ready" /\ heap' # heap

\* The grids of a run_until_stable call up to and including this step.
TraceAfter == Append(frame.trace, GridOf(heap', sims'[frame.sim].board))

\* C3: whenever run_until_stable called with check_period = 1 returns
\* oscillator_period_p, the final grid is cell-identical to the simulator's
\* grid exactly p generations earlier, whatever the length of the transient
\* and however many snapshots were recorded before the match.
C3_PeriodIsRecurrence ==
    [][(/\ IsClassified
        /\ frame.check_period = 1
        /\ ret'.stability = "oscillator_period") =>
          LET tr == TraceAfter
              p == ret'.period
          IN /\ p \in 1..(Len(tr) - 1)
             /\ tr[Len(tr)] = tr[Len(tr) - p]]_vars

\* C8: during a run_until_stable call the number of snapshots retained for
\* oscillation detection never exceeds 100.
C8_SnapshotsCapped ==
    pc = "run_until_stable" => Len(frame.previous_states) <= 100

\* This step is one iteration of the loop of run_until_stable.
IsStableIter == pc = "run_until_stable" /\ heap' # heap

\* The owned grid before and after this step of the call in progress.
GridBefore == GridOf(heap, sims[frame.sim].board)
GridAfter == GridOf(heap', sims'[frame.sim].board)

\* C4: after each step inside run_until_stable, a grid with no alive cell is
\* classified extinction (also when it equals the grid before the step),
\* still_life is returned only for a non-empty grid equal to the grid one step
\* earlier, and such a grid is always classified still_life, whatever the
\* recorded snapshots hold.
C4_CheckOrder ==
    [][IsStableIter =>
         LET empty == AliveCells(GridAfter) = {}
             same == GridAfter = GridBefore
             returns(stability) == pc' = "Ready" /\ ret'.stability = stability
         IN /\ empty => returns("extinction")
            /\ returns("extinction") => empty
            /\ returns("still_life") => (same /\ ~empty)
            /\ (same /\ ~empty) => returns("still_life")]_vars

\* run_until_stable on an empty board returned extinction after one step that
\* left the grid as it was.
C4_Witness ==
    /\ ret.op = "run_until_stable"
    /\ ret.kind = "return"
    /\ ret.stability = "extinction"
    /\ ret.value = 2
    /\ heap.boards[ret.value].generation = 1
    /\ GridOf(heap, ret.value) = GridOf(heap, 1)

\* The steps the call in progress may still apply fit under the bound on the
\* number of boards.
RemainingStepsFit ==
    Len(heap.boards) + frame.max_generations - frame.gen <= MaxBoards

\* C7: run_until_stable(max_generations) applies at most max_generations
\* steps, one per iteration, and every iteration either returns or moves on to
\* the next index; it returns max_generations_reached exactly when
\* max_generations steps were applied without a classification (at once and
\* with nothing changed when max_generations = 0); the returned board is the
\* owned board and its generation is the initial one plus the steps applied.
\* Every call returns, the loop being the only thing the call waits for.
C7_BoundedAndExhausted ==
    /\ [][pc = "run_until_stable" =>
            LET s == frame.sim
                n == frame.max_generations
                stepped == heap' # heap
                steps == IF stepped THEN frame.gen + 1 ELSE frame.gen
            IN /\ frame.gen = Len(frame.trace) - 1
               /\ frame.gen <= n
               /\ stepped <=> frame.gen < n
               /\ stepped => /\ heap'.boards[sims'[s].board].generation
                                  = heap.boards[sims[s].board].generation + 1
                             /\ steps <= n
               /\ pc' = "run_until_stable" =>
                     /\ stepped
                     /\ frame'.gen = frame.gen + 1
                     /\ frame'.max_generations = n
               /\ pc' = "Ready" =>
                     /\ ret'.kind = "return"
                     /\ ret'.value = sims'[s].board
                     /\ heap'.boards[ret'.value].generation
                           = frame.initial_generation + steps
                     /\ ret'.stability = "max_generations_reached" <=> ~stepped
                     /\ ~stepped => /\ frame.gen = n
                                    /\ sims' = sims
                     /\ stepped => ret'.stability \in
                           {"extinction", "still_life", "oscillator_period"}]_vars
    /\ (pc = "run_until_stable" /\ RemainingStepsFit) ~> pc = "Ready"

\* run_until_stable returned max_generations_reached after two steps on a
\* board that is still alive.
C7_Witness ==
    /\ ret.op = "run_until_stable"
    /\ ret.kind = "return"
    /\ ret.stability = "max_generations_reached"
    /\ heap.boards[ret.value].generation = 2
    /\ count_alive(heap, ret.value) > 0

\* C10: for any check_period >= 1 the still-life comparison is made after
\* every step, while the comparison against the recorded snapshots and the
\* recording of a new snapshot happen only on iterations whose index is
\* divisible by check_period.
C10_CheckPeriodGate ==
    [][IsStableIter =>
         LET gen == frame.gen
             gated == gen % frame.check_period = 0
             empty == AliveCells(GridAfter) = {}
             same == GridAfter = GridBefore
             seen == \E j \in DOMAIN frame.previous_states :
                        frame.previous_states[j] = GridAfter
         IN /\ frame.check_period >= 1
            /\ (same /\ ~empty) => (pc' = "Ready" /\ ret'.stability = "still_life")
            /\ (pc' = "Ready" /\ ret'.stability = "oscillator_period") =>
                  (gated /\ seen)
            /\ (~gated /\ ~empty /\ ~same) => pc' = "run_until_stable"
            /\ (gated /\ seen /\ ~empty /\ ~same) =>
                  (pc' = "Ready" /\ ret'.stability = "oscillator_period")
            /\ pc' = "run_until_stable" =>
                  frame'.previous_states =
                     IF gated THEN Append(frame.previous_states, GridAfter)
                     ELSE frame.previous_states]_vars

\* With check_period = 3 the grid after the third step equals the recorded
\* snapshot, the iteration (index 2) was not a checked one, and the call went on.
C10_Witness ==
    /\ pc = "run_until_stable"
    /\ frame.check_period = 3
    /\ frame.gen = 3
    /\ Len(frame.previous_states) = 1
    /\ frame.trace[4] = frame.previous_states[1]
    /\ frame.trace[4] # frame.trace[3]

\* This step is the return of run.
IsRunReturn == pc = "run" /\ pc' = "Ready"

\* C5: run(generations = N) with 0 <= N <= 10000 returns the owned board with
\* generation = initial generation + N, unless a step of the run leaves no
\* alive cell: then the run stops right after that step and generation is the
\* initial one plus the steps applied up to and including it.
C5_RunGenerationCount ==
    [][/\ (pc = "run" /\ pc' = "run") =>
             /\ frame.generations \in 0..MAX_GENERATIONS
             /\ frame'.gen = frame.gen + 1
             /\ heap'.boards[sims'[frame.sim].board].generation
                   = heap.boards[sims[frame.sim].board].generation + 1
       /\ IsRunReturn =>
             LET s == frame.sim
                 tr == frame.trace
                 k == Len(tr) - 1
                 N == frame.generations
                 extinct(i) == AliveCells(tr[i + 1]) = {}
             IN /\ ret'.kind = "return"
                /\ ret'.value = sims'[s].board
                /\ GridOf(heap', ret'.value) = tr[k + 1]
                /\ k = frame.gen
                /\ heap'.boards[ret'.value].generation
                      = frame.initial_generation + k
                /\ k <= N
                /\ \A i \in 1..k : extinct(i) => i = k
                /\ k < N => (k >= 1 /\ extinct(k))
                /\ (\A i \in 1..k : ~extinct(i)) => k = N]_vars

\* A run asked for 10000 generations has left its loop after the second step,
\* which left no alive cell.
C5_Witness ==
    /\ pc = "run"
    /\ frame.generations = MAX_GENERATIONS
    /\ frame.brk
    /\ frame.gen = 2
    /\ count_alive(heap, sims[frame.sim].board) = 0
    /\ heap.boards[sims[frame.sim].board].generation
          = frame.initial_generation + 2

\* C6: run(generations) fails with the overflow error exactly when
\* generations > 10000; when it fails no step is applied, no callback is
\* invoked, and the owned board, its generation and the history are unchanged.
C6_OverflowExactlyAboveLimit ==
    [][(pc = "Ready" /\ ret'.op = "run") =>
          /\ ret'.kind \in {"raise", "pending"}
          /\ ret'.kind = "raise" =>
                /\ ret'.generations > 10000
                /\ ret'.error = "SimulationOverflowError"
                /\ heap' = heap
                /\ sims' = sims
                /\ callback_log' = callback_log
                /\ pc' = "Ready"
                /\ frame' = frame
          /\ ret'.kind = "pending" =>
                /\ pc' = "run"
                /\ frame'.generations <= 10000]_vars

\* run(10001) was refused on a simulator that had stepped and holds a history.
C6_Witness ==
    /\ ret.kind = "raise"
    /\ ret.op = "run"
    /\ ret.generations = 10001
    /\ pc = "Ready"
    /\ sims[ret.sim].history # << >>
    /\ heap.boards[sims[ret.sim].board].generation = 1
    /\ count_alive(heap, sims[ret.sim].board) > 0

\* The boards held in the history of simulator s.
Snapshots(s) == {sims[s].history[i] : i \in DOMAIN sims[s].history}

\* C9: a run with save_history that applies k steps leaves exactly k + 1
\* snapshots in the history, entry 0 the grid before the first step and entry
\* i the grid after the i-th step, whatever the history held before; every
\* snapshot is a board of its own that shares no row with the owned board or
\* with another snapshot, and no later step or cell write changes it.
C9_HistoryIndependentSnapshots ==
    [][/\ \A s \in DOMAIN sims : \A b \in Snapshots(s) :
             /\ heap'.boards[b] = heap.boards[b]
             /\ GridOf(heap', b) = GridOf(heap, b)
       /\ (pc = "Ready" /\ pc' = "run" /\ frame'.save_history) =>
             LET hist == sims'[frame'.sim].history
             IN /\ Len(hist) = 1
                /\ hist[1] \notin DOMAIN heap.boards
                /\ GridOf(heap', hist[1]) = GridOf(heap, sims[frame'.sim].board)
       /\ (IsRunReturn /\ frame.save_history) =>
             LET s == frame.sim
                 hist == sims'[s].history
                 tr == frame.trace
                 k == Len(tr) - 1
                 owned == sims'[s].board
             IN /\ k = frame.gen
                /\ Len(hist) = k + 1
                /\ \A i \in 1..(k + 1) :
                      /\ GridOf(heap', hist[i]) = tr[i]
                      /\ heap'.boards[hist[i]].generation
                            = frame.initial_generation + i - 1
                      /\ hist[i] # owned
                      /\ RowRefs(heap', hist[i]) \cap RowRefs(heap', owned) = {}
                      /\ \A j \in 1..(k + 1) : j # i =>
                            /\ hist[j] # hist[i]
                            /\ RowRefs(heap', hist[i]) \cap RowRefs(heap', hist[j]) = {}]_vars

\* After a run that recorded its history a cell of the owned board was
\* written: the owned grid now differs from the last snapshot, taken at the
\* same generation.
C9_Witness ==
    /\ ret.op = "set_cell"
    /\ pc = "Ready"
    /\ \E s \in DOMAIN sims :
          LET hist == sims[s].history
          IN /\ Len(hist) = 3
             /\ ret.board = sims[s].board
             /\ heap.boards[hist[3]].generation
                   = heap.boards[sims[s].board].generation
             /\ GridOf(heap, hist[3]) # GridOf(heap, sims[s].board)
             /\ GridOf(heap, hist[2]) # GridOf(heap, hist[3])

(***************************************************************************)
(* A single live cell: boards of every shape with exactly one live cell,   *)
(* stepped and run until stable.                                           *)
(***************************************************************************)
SingleCellBoards ==
    UNION {{[width |-> wh[1], height |-> wh[2], cells |-> {<<r, c>>}] :
               r \in 0..(wh[2] - 1), c \in 0..(wh[1] - 1)} : wh \in Shapes}

InitSingle == InitSim(SingleCellBoards)

NextSingle ==
    \/ \E s \in DOMAIN sims : Step(s, MaxBoards)
    \/ \E s \in DOMAIN sims, max_generations \in OptInt,
          check_period \in 1..MaxCheckPeriod :
          RunUntilStableCall(s, max_generations, check_period)
    \/ RunUntilStableIter(MaxBoards)
    \/ RunUntilStableExhausted

SpecSingle == InitSingle /\ [][NextSingle]_vars

\* The board of simulator s holds exactly one live cell.
IsSingleCell(s) == Cardinality(AliveCells(GridOf(heap, sims[s].board))) = 1

\* C11: a single live cell on an otherwise empty grid, at any position of a
\* grid of any shape, is dead after one standard-rule step, and
\* run_until_stable on such a grid with max_generations >= 1 returns
\* extinction after exactly one step, the final grid having no alive cell.
C11_SingleCellDies ==
    [][\A s \in DOMAIN sims :
          (IsSingleCell(s) /\ sims[s].rule_name = "standard") =>
             /\ (pc = "Ready" /\ ret'.op = "step" /\ ret'.sim = s) =>
                   /\ AliveCells(GridOf(heap', sims'[s].board)) = {}
                   /\ heap'.boards[sims'[s].board].generation
                         = heap.boards[sims[s].board].generation + 1
             /\ (pc = "run_until_stable" /\ frame.sim = s) =>
                   /\ frame.gen = 0
                   /\ frame.max_generations >= 1 =>
                         /\ pc' = "Ready"
                         /\ ret'.stability = "extinction"
                         /\ ret'.value = sims'[s].board
                         /\ count_alive(heap', ret'.value) = 0
                         /\ heap'.boards[ret'.value].generation
                               = frame.initial_generation + 1]_vars

\* run_until_stable under the standard rule returned extinction after one
\* step on a 2x4 board whose only live cell was in a corner.
C11_Witness ==
    /\ ret.op = "run_until_stable"
    /\ ret.kind = "return"
    /\ ret.stability = "extinction"
    /\ sims[ret.sim].rule_name = "standard"
    /\ heap.boards[1].width = 2
    /\ heap.boards[1].height = 4
    /\ AliveCells(GridOf(heap, 1)) = {<<3, 1>>}
    /\ ret.value = 2
    /\ heap.boards[2].generation = 1

(***************************************************************************)
(* Known patterns under the standard rule: the 2x2 block at every position *)
(* of every board of 2..MaxBlockSide rows and columns, and the blinker     *)
(* centred in a 5x5 board, through evolve_grid (once, then again on its    *)
(* result), step and run_until_stable.                                     *)
(***************************************************************************)
MaxBlockSide == 4

\* evolve_grid, rules.py lines 131-139: a Board of the size of the raw grid
\* with copies of its rows, StandardRules.evolve, the grid of the result.
evolve_grid(grid) ==
    LET height == Cardinality(DOMAIN grid)
        width == IF height > 0 THEN Cardinality(DOMAIN grid[0]) ELSE 0
        board == HeapWithBoard(width, height, grid)
        evolved_board == evolve("StandardRules", board, 1)
    IN GridOf(evolved_board.heap, evolved_board.ref)

BlockAt(r, c) == {<<r, c>>, <<r, c + 1>>, <<r + 1, c>>, <<r + 1, c + 1>>}

BlockBoards ==
    UNION {{[width |-> w, height |-> h, cells |-> BlockAt(r, c)] :
               r \in 0..(h - 2), c \in 0..(w - 2)} :
           w \in 2..MaxBlockSide, h \in 2..MaxBlockSide}

\* test_evolve_grid_blinker: the three cells in column 2, and in row 2.
BlinkerInColumn == {<<1, 2>>, <<2, 2>>, <<3, 2>>}
BlinkerInRow == {<<2, 1>>, <<2, 2>>, <<2, 3>>}

BlinkerBoards ==
    {[width |-> 5, height |-> 5, cells |-> cs] :
        cs \in {BlinkerInColumn, BlinkerInRow}}

InitPatterns ==
    /\ InitSim(BlockBoards \cup BlinkerBoards)
    /\ sims[1].rule_name = "standard"

\* new_grid = evolve_grid(grid) on the cells of a board
EvolveGridCall(board) ==
    /\ pc = "Ready"
    /\ LET grid == GridOf(heap, board)
       IN ret' = [kind |-> "return", op |-> "evolve_grid", applied |-> 1,
                  first |-> grid, arg |-> grid, value |-> evolve_grid(grid)]
    /\ UNCHANGED <<heap, registry, sims, pc, frame, callback_log>>

\* final_grid = evolve_grid(new_grid)
EvolveGridAgain ==
    /\ pc = "Ready"
    /\ ret.op = "evolve_grid"
    /\ ret.applied = 1
    /\ ret' = [ret EXCEPT !.applied = 2, !.arg = ret.value,
                          !.value = evolve_grid(ret.value)]
    /\ UNCHANGED <<heap, registry, sims, pc, frame, callback_log>>

NextPatterns ==
    \/ \E s \in DOMAIN sims : EvolveGridCall(sims[s].board)
    \/ EvolveGridAgain
    \/ \E s \in DOMAIN sims : Step(s, MaxBoards)
    \/ \E s \in DOMAIN sims, max_generations \in OptInt,
          check_period \in 1..MaxCheckPeriod :
          RunUntilStableCall(s, max_generations, check_period)
    \/ RunUntilStableIter(MaxBoards)
    \/ RunUntilStableExhausted

SpecPatterns == InitPatterns /\ [][NextPatterns]_vars

\* The live cells of grid g are a 2x2 block.
IsBlock(g) ==
    \E r \in DOMAIN g : \E c \in DOMAIN g[r] : AliveCells(g) = BlockAt(r, c)

\* This step is a call of evolve_grid.
IsEvolveGridCall == pc = "Ready" /\ ret'.op = "evolve_grid"

\* C12: a 2x2 block on an otherwise empty grid, at any position (also against
\* an edge or in a corner), is a fixed point of the standard rule: evolve_grid
\* returns the same cells, applied again it returns them again, a step leaves
\* the cells as they are, and run_until_stable with max_generations >= 1
\* returns still_life after exactly one step.
C12_BlockIsFixedPoint ==
    [][/\ (IsEvolveGridCall /\ IsBlock(ret'.first)) =>
             /\ ret'.value = ret'.arg
             /\ ret'.value = ret'.first
       /\ \A s \in DOMAIN sims : IsBlock(GridOf(heap, sims[s].board)) =>
             /\ (pc = "Ready" /\ ret'.op = "step" /\ heap' # heap) =>
                   GridOf(heap', sims'[s].board) = GridOf(heap, sims[s].board)
             /\ (pc = "run_until_stable" /\ frame.max_generations >= 1) =>
                   /\ frame.gen = 0
                   /\ pc' = "Ready"
                   /\ ret'.stability = "still_life"
                   /\ GridOf(heap', ret'.value) = GridOf(heap, sims[s].board)
                   /\ heap'.boards[ret'.value].generation
                         = frame.initial_generation + 1]_vars

\* evolve_grid was applied twice, starting from the block in the lower right
\* corner of a board of 3 columns and 4 rows, and returned the block.
C12_Witness ==
    /\ ret.op = "evolve_grid"
    /\ ret.applied = 2
    /\ DOMAIN ret.first = 0..3
    /\ DOMAIN ret.first[0] = 0..2
    /\ AliveCells(ret.first) = BlockAt(2, 1)
    /\ ret.value = ret.first

\* Grid g is 5x5 and holds a blinker through its centre and nothing else.
IsCentredBlinker(g) ==
    /\ DOMAIN g = 0..4
    /\ \A r \in DOMAIN g : DOMAIN g[r] = 0..4
    /\ AliveCells(g) \in {BlinkerInColumn, BlinkerInRow}

\* The blinker of the other orientation.
Turned(cells) == IF cells = BlinkerInColumn THEN BlinkerInRow ELSE BlinkerInColumn

\* C13: under the standard rule a 3-cell straight blinker centred in an
\* otherwise empty 5x5 grid turns into the blinker of the other orientation
\* after one step and back into the original cells after two steps, whichever
\* orientation it starts in.
C13_BlinkerPeriodTwo ==
    [][/\ (IsEvolveGridCall /\ IsCentredBlinker(ret'.arg)) =>
             /\ DOMAIN ret'.value = DOMAIN ret'.arg
             /\ \A r \in DOMAIN ret'.value : DOMAIN ret'.value[r] = 0..4
             /\ AliveCells(ret'.value) = Turned(AliveCells(ret'.arg))
       /\ (IsEvolveGridCall /\ IsCentredBlinker(ret'.first) /\ ret'.applied = 2) =>
             /\ ret'.arg = ret.value
             /\ AliveCells(ret'.arg) = Turned(AliveCells(ret'.first))
             /\ ret'.value = ret'.first
       /\ \A s \in DOMAIN sims :
             (/\ IsCentredBlinker(GridOf(heap, sims[s].board))
              /\ pc = "Ready" /\ ret'.op = "step" /\ heap' # heap) =>
                 AliveCells(GridOf(heap', sims'[s].board))
                    = Turned(AliveCells(GridOf(heap, sims[s].board)))]_vars

\* evolve_grid was applied twice starting from the blinker in row 2: the
\* second call was given the blinker in column 2 and returned the one in row 2.
C13_Witness ==
    /\ ret.op = "evolve_grid"
    /\ ret.applied = 2
    /\ IsCentredBlinker(ret.first)
    /\ AliveCells(ret.first) = BlinkerInRow
    /\ AliveCells(ret.arg) = BlinkerInColumn
    /\ ret.value = ret.first

(***************************************************************************)
(* The calls that can fail: Board(width, height), board.set_cell,          *)
(* RuleRegistry.get_rule, Simulator(board, rule_name) and sim.run.  A call *)
(* that raises leaves its exception class in ret.error, with the arguments *)
(* of the call.                                                            *)
(***************************************************************************)
\* Board.__init__, line 30: the largest width and height accepted.
MAX_DIMENSION == 1000

\* As BoardError, but refusing the largest dimension as well.
BoardErrorAtLimit(width, height) ==
    IF width <= 0 \/ height <= 0 THEN "InvalidDimensionError"
    ELSE IF width >= MAX_DIMENSION \/ height >= MAX_DIMENSION
         THEN "InvalidDimensionError"
         ELSE "none"

\* Board.__init__, lines 27-31: the exception raised, "none" when accepted.
BoardError(width, height) ==
    IF width <= 0 \/ height <= 0 THEN "InvalidDimensionError"
    ELSE IF width > MAX_DIMENSION \/ height > MAX_DIMENSION
         THEN "InvalidDimensionError"
         ELSE "none"

\* As SetCellError, but with the value checked before the position.
SetCellErrorValueFirst(h, b, row, col, value) ==
    IF value \notin {0, 1} THEN "ValueError"
    ELSE IF ~InBounds(h, b, row, col) THEN "IndexError"
         ELSE "none"

\* Board.set_cell, lines 50-54: the exception raised, "none" when accepted.
SetCellError(h, b, row, col, value) ==
    IF ~InBounds(h, b, row, col) THEN "IndexError"
    ELSE IF value \notin {0, 1} THEN "ValueError"
         ELSE "none"

\* As list_rules, but the names registered when the package was imported.
list_rules_at_import(reg) ==
    [i \in 1..Len(BuiltinRules) |-> BuiltinRules[i].name]

\* list(cls._rules.keys())
list_rules(reg) == [i \in 1..Len(reg) |-> reg[i].name]

\* board = Board(width, height)
BoardCall(width, height, cap) ==
    /\ pc = "Ready"
    /\ IF BoardError(width, height) # "none"
       THEN /\ ret' = [kind |-> "raise", op |-> "Board",
                       error |-> BoardError(width, height),
                       width |-> width, height |-> height]
            /\ UNCHANGED heap
       ELSE /\ Len(heap.boards) < cap
            /\ LET nb == Board_init(heap, width, height)
               IN /\ heap' = nb.heap
                  /\ ret' = [kind |-> "return", op |-> "Board", value |-> nb.ref,
                             width |-> width, height |-> height]
    /\ UNCHANGED <<registry, sims, pc, frame, callback_log>>

\* board.set_cell(row, col, value), the refused cases (lines 50-54)
SetCellRejected(board, row, col, value) ==
    /\ pc = "Ready"
    /\ SetCellError(heap, board, row, col, value) # "none"
    /\ ret' = [kind |-> "raise", op |-> "set_cell",
               error |-> SetCellError(heap, board, row, col, value),
               board |-> board, row |-> row, col |-> col, value |-> value]
    /\ UNCHANGED <<heap, registry, sims, pc, frame, callback_log>>

\* RuleRegistry.get_rule(name)
GetRuleCall(name) ==
    /\ pc = "Ready"
    /\ ret' = IF HasRule(registry, name)
              THEN [kind |-> "return", op |-> "get_rule", name |-> name,
                    value |-> get_rule(registry, name)]
              ELSE [kind |-> "raise", op |-> "get_rule", error |-> "ValueError",
                    name |-> name, available |-> list_rules(registry)]
    /\ UNCHANGED <<heap, registry, sims, pc, frame, callback_log>>

\* sim = Simulator(board, rule_name): get_rule raises before the object is
\* complete, so no simulator comes to exist.
SimulatorCall(board, rule_name, cap) ==
    /\ pc = "Ready"
    /\ IF HasRule(registry, rule_name)
       THEN /\ Len(sims) < cap
            /\ sims' = Append(sims, Simulator_init(registry, board, rule_name))
            /\ ret' = [kind |-> "return", op |-> "Simulator",
                       value |-> Len(sims) + 1]
       ELSE /\ ret' = [kind |-> "raise", op |-> "Simulator",
                       error |-> "ValueError", name |-> rule_name,
                       available |-> list_rules(registry)]
            /\ UNCHANGED sims
    /\ UNCHANGED <<heap, registry, pc, frame, callback_log>>

MaxSims == 2

\* Widths and heights asked of Board, and rows, columns and values of set_cell.
DimensionArgs == {-1, 0, 1, MAX_DIMENSION + 1}
IndexArgs == {-1, 0, 3}
ValueArgs == {-1, 0, 1, 2}
NameArgs == {"standard", "highlife", "conway", ""}

InitErrors ==
    /\ InitSim({b \in SimBoards : Cardinality(b.cells) <= 1})
    /\ sims[1].rule_name = "standard"

NextErrors ==
    \/ \E width \in DimensionArgs, height \in DimensionArgs :
          BoardCall(width, height, MaxBoards)
    \/ \E s \in DOMAIN sims, rc \in WriteCells, value \in {0, 1} :
          SetCell(sims[s].board, rc[1], rc[2], value)
    \/ \E s \in DOMAIN sims, row \in IndexArgs, col \in IndexArgs,
          value \in ValueArgs :
          SetCellRejected(sims[s].board, row, col, value)
    \/ \E name \in NameArgs : GetRuleCall(name)
    \/ \E board \in DOMAIN heap.boards, name \in NameArgs :
          SimulatorCall(board, name, MaxSims)
    \/ \E s \in DOMAIN sims :
          RunCall(s, MAX_GENERATIONS + 1, FALSE, FALSE, MaxBoards)

SpecErrors == InitErrors /\ [][NextErrors]_vars

\* What went wrong in the call that raised r, told from the call and its
\* arguments alone.
Failure(r) ==
    CASE r.op = "Board" -> "dimension violation"
      [] r.op = "set_cell" ->
            IF InBounds(heap, r.board, r.row, r.col)
            THEN "invalid cell value" ELSE "cell out of bounds"
      [] r.op = "run" -> "run overflow"
      [] r.op \in {"get_rule", "Simulator"} -> "unknown rule name"

\* C14: a dimension violation at construction, an out-of-bounds cell write, an
\* invalid-value cell write, a run overflow and an unknown-rule-name lookup are
\* reported under pairwise distinct error kinds: two failures of different
\* cause, one after the other, never carry the same kind.
C14_DistinctErrorKinds ==
    [][(/\ ret.kind = "raise"
        /\ ret'.kind = "raise"
        /\ Failure(ret) # Failure(ret')) => ret.error # ret'.error]_vars

(***************************************************************************)
(* The generation counter of a board under set, clear, copy, step, run and *)
(* run_until_stable.                                                       *)
(***************************************************************************)
\* Board.clear: self.grid is rebound to fresh zero rows, self.generation = 0.
clear(h, b) ==
    LET base == Len(h.rows)
        width == h.boards[b].width
        height == h.boards[b].height
        newRows == [i \in 1..height |-> [c \in 0..(width - 1) |-> 0]]
    IN [rows |-> h.rows \o newRows,
        boards |-> [h.boards EXCEPT
                      ![b].grid = [r \in 0..(height - 1) |-> base + r + 1],
                      ![b].generation = 0]]

\* board.clear()
ClearCall(board, cap) ==
    /\ pc = "Ready"
    /\ Len(heap.rows) + heap.boards[board].height <= cap
    /\ heap' = clear(heap, board)
    /\ ret' = [kind |-> "return", op |-> "clear", board |-> board]
    /\ UNCHANGED <<registry, sims, pc, frame, callback_log>>

\* other = board.copy()
CopyCall(board, cap) ==
    /\ pc = "Ready"
    /\ Len(heap.boards) < cap
    /\ \E cp \in {copy(heap, board)} :
          /\ heap' = cp.heap
          /\ ret' = [kind |-> "return", op |-> "copy", board |-> board,
                     value |-> cp.ref]
    /\ UNCHANGED <<registry, sims, pc, frame, callback_log>>

\* The boards and the row lists a behaviour may allocate.
MaxBoardsGeneration == 4
MaxRows == 12

InitGeneration ==
    /\ InitSim({b \in SimBoards : b.cells = {<<1, 0>>, <<1, 1>>, <<1, 2>>}})
    /\ sims[1].rule_name = "standard"

NextGeneration ==
    \/ \E s \in DOMAIN sims, rc \in WriteCells, value \in {0, 1} :
          SetCell(sims[s].board, rc[1], rc[2], value)
    \/ \E s \in DOMAIN sims : ClearCall(sims[s].board, MaxRows)
    \/ \E s \in DOMAIN sims : CopyCall(sims[s].board, MaxBoardsGeneration)
    \/ \E s \in DOMAIN sims : Step(s, MaxBoardsGeneration)
    \/ \E s \in DOMAIN sims, generations \in 0..MaxGenArg :
          RunCall(s, generations, FALSE, FALSE, MaxBoardsGeneration)
    \/ RunIter(MaxBoardsGeneration)
    \/ RunReturn
    \/ \E s \in DOMAIN sims, max_generations \in OptInt,
          check_period \in 1..MaxCheckPeriod :
          RunUntilStableCall(s, max_generations, check_period)
    \/ RunUntilStableIter(MaxBoardsGeneration)
    \/ RunUntilStableExhausted

SpecGeneration == InitGeneration /\ [][NextGeneration]_vars

\* C15: across set, clear, copy, step, run and run_until_stable the generation
\* counter of every board is a non-negative integer and never decreases.
C15_GenerationNeverDecreases ==
    [][\A b \in DOMAIN heap.boards :
          /\ heap'.boards[b].generation \in Nat
          /\ heap'.boards[b].generation >= heap.boards[b].generation]_vars

(***************************************************************************)
(* Pattern files.  A Python string is the sequence of its characters, each *)
(* a one-character string; a file is the string written to it.             *)
(***************************************************************************)
Whitespace == {" ", "\t", "\r", "\n"}

\* str.rstrip()
RECURSIVE rstrip(_)
rstrip(str) ==
    IF str # << >> /\ str[Len(str)] \in Whitespace
    THEN rstrip(SubSeq(str, 1, Len(str) - 1))
    ELSE str

\* str.lstrip()
RECURSIVE lstrip(_)
lstrip(str) ==
    IF str # << >> /\ str[1] \in Whitespace THEN lstrip(Tail(str)) ELSE str

\* str.strip()
strip(str) == lstrip(rstrip(str))

\* str.startswith(prefix)
startswith(str, prefix) ==
    Len(str) >= Len(prefix) /\ SubSeq(str, 1, Len(prefix)) = prefix

\* str[k:], k counted from 0
From(str, k) == SubSeq(str, k + 1, Len(str))

\* content.split('\n'): one more piece than there are newlines.
RECURSIVE split(_)
split(content) ==
    IF \A i \in DOMAIN content : content[i] # "\n"
    THEN <<content>>
    ELSE LET i == CHOOSE j \in DOMAIN content :
                     content[j] = "\n" /\ \A k \in 1..(j - 1) : content[k] # "\n"
         IN <<SubSeq(content, 1, i - 1)>> \o split(From(content, i))

DigitChars == <<"0", "1", "2", "3", "4", "5", "6", "7", "8", "9">>

\* f"{n}" of a non-negative int
RECURSIVE str_int(_)
str_int(n) ==
    IF n < 10 THEN <<DigitChars[n + 1]>>
    ELSE str_int(n \div 10) \o <<DigitChars[(n % 10) + 1]>>

RECURSIVE Join(_)
Join(strs) == IF strs = << >> THEN << >> ELSE Head(strs) \o Join(Tail(strs))

\* PatternParser.save_pattern, lines 247-261: the text written to the file.
\* A name or a comment list that is None or empty writes nothing.
save_pattern(h, board, name, comments) ==
    LET grid == GridOf(h, board)
        height == h.boards[board].height
        width == h.boards[board].width
        gridLine(r) == [c \in 1..width |->
                           IF grid[r][c - 1] # 0 THEN "O" ELSE "."] \o <<"\n">>
    IN (IF name # << >> THEN <<"#", "N", " ">> \o name \o <<"\n">> ELSE << >>)
       \o Join([i \in 1..Len(comments) |->
                   <<"#", " ">> \o comments[i] \o <<"\n">>])
       \o <<"#", " ", "G", "e", "n", "e", "r", "a", "t", "i", "o", "n", ":", " ">>
       \o str_int(h.boards[board].generation) \o <<"\n">>
       \o <<"#", " ", "A", "l", "i", "v", "e", " ", "c", "e", "l", "l", "s", ":", " ">>
       \o str_int(count_alive(h, board)) \o <<"\n">>
       \o <<"#", "\n">>
       \o Join([r \in 1..height |-> gridLine(r - 1)])

\* PatternParser._parse_plaintext, lines 84-100: the loop over enumerate(lines);
\* acc holds cells, name and comments after the lines before index row.
RECURSIVE plaintext_lines(_, _, _)
plaintext_lines(lines, row, acc) ==
    IF row >= Len(lines) THEN acc
    ELSE LET line == rstrip(lines[row + 1])
             comment == strip(From(line, 1))
             found == SelectSeq([i \in 1..Len(line) |-> <<row, i - 1>>],
                                LAMBDA rc : line[rc[2] + 1] \in {"O", "*", "1"})
         IN plaintext_lines(lines, row + 1,
              IF startswith(line, <<"#">>)
              THEN IF startswith(comment, <<"N", " ">>)
                   THEN [acc EXCEPT !.name = strip(From(comment, 2))]
                   ELSE [acc EXCEPT !.comments = Append(@, comment)]
              ELSE [acc EXCEPT !.cells = @ \o found])

\* PatternParser._parse_plaintext
parse_plaintext(content, filename) ==
    LET acc == plaintext_lines(split(content), 0,
                   [cells |-> << >>, name |-> filename, comments |-> << >>])
    IN IF acc.cells = << >>
       THEN [kind |-> "raise", error |-> "PatternParseError"]
       ELSE [kind |-> "return", name |-> acc.name, cells |-> acc.cells,
             comments |-> acc.comments, format |-> "plaintext"]

\* The file name used by the driver.
PatternFile == <<"p", ".", "t", "x", "t">>

\* Names and comment lists given to save_pattern; << >> stands for None.
NameArgsSave == {<< >>, <<"O">>, <<"*", "1">>}
CommentArgs == {<< >>, << <<"O">> >>, << <<"O", ".">>, << >> >>}

\* Any board with at least one live cell.
InitSave ==
    /\ \E wh \in Shapes, generation \in 0..MaxGeneration :
         \E g \in AllGrids(wh[1], wh[2]) :
            /\ AliveCells(g) # {}
            /\ heap = [HeapWithBoard(wh[1], wh[2], g) EXCEPT
                          !.boards[1].generation = generation]
    /\ registry = BuiltinRules
    /\ sims = << >>
    /\ pc = "Ready"
    /\ frame = NoFrame
    /\ ret = NoRet
    /\ callback_log = << >>

\* PatternParser.save_pattern(filename, board, name, comments)
SavePatternCall(board, name, comments) ==
    /\ pc = "Ready"
    /\ ret.op = "none"
    /\ frame' = [op |-> "file", filename |-> PatternFile,
                 content |-> save_pattern(heap, board, name, comments)]
    /\ ret' = [kind |-> "return", op |-> "save_pattern", board |-> board,
               name |-> name, comments |-> comments]
    /\ UNCHANGED <<heap, registry, sims, pc, callback_log>>

\* PatternParser._parse_plaintext(content, filename) on the file written
ParsePlaintextCall ==
    /\ pc = "Ready"
    /\ frame.op = "file"
    /\ ret.op = "save_pattern"
    /\ ret' = parse_plaintext(frame.content, frame.filename)
                 @@ [op |-> "_parse_plaintext", board |-> ret.board]
    /\ UNCHANGED <<heap, registry, sims, pc, frame, callback_log>>

NextSave ==
    \/ \E name \in NameArgsSave, comments \in CommentArgs :
          SavePatternCall(1, name, comments)
    \/ ParsePlaintextCall

SpecSave == InitSave /\ [][NextSave]_vars

\* C16: saving a board with at least one live cell through save_pattern, with
\* or without a name and comments, and parsing the written text with the
\* plaintext parser yields exactly the (row, col) coordinates of the board's
\* live cells.
C16_SaveParseRoundTrip ==
    ret.op = "_parse_plaintext" =>
        /\ ret.kind = "return"
        /\ {ret.cells[i] : i \in DOMAIN ret.cells}
              = AliveCells(GridOf(heap, ret.board))

(***************************************************************************)
(* Run-length encoded patterns                                             *)
(***************************************************************************)
\* RLE_PATTERN, the tags of (\d*)([bo$!])
RleTags == {"b", "o", "$", "!"}

IsDigit(ch) == \E d \in DOMAIN DigitChars : DigitChars[d] = ch

\* int(count_str) of a non-empty digit string
RECURSIVE int_str(_)
int_str(digits) ==
    IF digits = << >> THEN 0
    ELSE 10 * int_str(SubSeq(digits, 1, Len(digits) - 1))
         + (CHOOSE d \in 0..9 : DigitChars[d + 1] = digits[Len(digits)])

\* The digits \d* takes at position i of line: as many as there are.
RECURSIVE DigitRun(_, _)
DigitRun(line, i) ==
    IF i <= Len(line) /\ IsDigit(line[i]) THEN 1 + DigitRun(line, i + 1) ELSE 0

\* re.match(RLE_PATTERN, line[i:]), i counted from 1: the digits, then a tag.
RleMatch(line, i) ==
    LET k == DigitRun(line, i)
    IN IF i + k <= Len(line) /\ line[i + k] \in RleTags
       THEN [matched |-> TRUE, tag |-> line[i + k], length |-> k + 1,
             count |-> IF k = 0 THEN 1 ELSE int_str(SubSeq(line, i, i + k - 1))]
       ELSE [matched |-> FALSE]

\* _parse_rle, lines 193-219: the while loop over one line.  '!' leaves the
\* loop of this line only.
RECURSIVE rle_line(_, _, _)
rle_line(line, i, acc) ==
    IF i > Len(line) THEN acc
    ELSE LET m == RleMatch(line, i)
         IN IF ~m.matched THEN rle_line(line, i + 1, acc)
            ELSE CASE m.tag = "b" ->
                        rle_line(line, i + m.length,
                                 [acc EXCEPT !.col = @ + m.count])
                   [] m.tag = "o" ->
                        rle_line(line, i + m.length,
                                 [acc EXCEPT
                                    !.cells = @ \o [j \in 1..m.count |->
                                                      <<acc.row, acc.col + j - 1>>],
                                    !.col = @ + m.count])
                   [] m.tag = "$" ->
                        rle_line(line, i + m.length,
                                 [acc EXCEPT !.row = @ + m.count, !.col = 0])
                   [] m.tag = "!" -> acc

\* _parse_rle, lines 174-219: the loop over the lines.
RECURSIVE rle_lines(_, _, _)
rle_lines(lines, n, acc) ==
    IF n > Len(lines) THEN acc
    ELSE LET line == strip(lines[n])
             comment == strip(From(line, 1))
         IN rle_lines(lines, n + 1,
              IF startswith(line, <<"#">>)
              THEN IF startswith(comment, <<"N", " ">>)
                   THEN [acc EXCEPT !.name = strip(From(comment, 2))]
                   ELSE [acc EXCEPT !.comments = Append(@, comment)]
              ELSE IF startswith(line, <<"x">>) \/ line = << >>
                   THEN acc
                   ELSE rle_line(line, 1, acc))

\* PatternParser._parse_rle
parse_rle(content, filename) ==
    LET acc == rle_lines(split(content), 1,
                   [cells |-> << >>, name |-> filename, comments |-> << >>,
                    row |-> 0, col |-> 0])
    IN IF acc.cells = << >>
       THEN [kind |-> "raise", error |-> "PatternParseError"]
       ELSE [kind |-> "return", name |-> acc.name, cells |-> acc.cells,
             comments |-> acc.comments, format |-> "rle"]

\* The longest text enumerated, and the characters it is made of.
MaxRleLen == 4
RleChars == {"2", "b", "o", "$", "!", "x", "\n"}

RECURSIVE TextsOfLen(_)
TextsOfLen(n) ==
    IF n = 0 THEN {<< >>}
    ELSE {Append(t, ch) : t \in TextsOfLen(n - 1), ch \in RleChars}

RleTexts ==
    UNION {TextsOfLen(n) : n \in 0..MaxRleLen}
       \cup {<<"2", "o", "$", "2", "o", "!">>,
             <<"#", "N", " ", "b", "!", "\n", "x", " ", "=", " ", "2", "\n",
               "2", "o", "$", "2", "o", "!", "\n">>}

InitRle ==
    /\ heap = EmptyHeap
    /\ registry = BuiltinRules
    /\ sims = << >>
    /\ pc = "Ready"
    /\ \E content \in RleTexts :
          frame = [op |-> "file", filename |-> PatternFile, content |-> content]
    /\ ret = NoRet
    /\ callback_log = << >>

\* PatternParser._parse_rle(content, filename) on the text of the file
ParseRleCall ==
    /\ pc = "Ready"
    /\ frame.op = "file"
    /\ ret.op = "none"
    /\ ret' = parse_rle(frame.content, frame.filename)
                 @@ [op |-> "_parse_rle"]
    /\ UNCHANGED <<heap, registry, sims, pc, frame, callback_log>>

NextRle == ParseRleCall

SpecRle == InitRle /\ [][NextRle]_vars

\* The reference decoding.  The data lines are the lines that, stripped, are
\* not empty and start with neither '#' nor 'x'; a token is a tag with the
\* digits right before it; the tokens of all data lines form one stream, which
\* ends before its first '!'.
RefDataLines(content) ==
    SelectSeq([n \in DOMAIN split(content) |-> strip(split(content)[n])],
              LAMBDA line : /\ line # << >>
                            /\ ~startswith(line, <<"#">>)
                            /\ ~startswith(line, <<"x">>))

RefLineTokens(line) ==
    LET digitsBefore(p) ==
            CHOOSE k \in 0..(p - 1) :
               /\ \A q \in (p - k)..(p - 1) : IsDigit(line[q])
               /\ (p - k = 1 \/ ~IsDigit(line[p - k - 1]))
        token(p) == [tag |-> line[p],
                     count |-> IF digitsBefore(p) = 0 THEN 1
                               ELSE int_str(SubSeq(line, p - digitsBefore(p), p - 1))]
    IN SelectSeq([p \in DOMAIN line |-> IF line[p] \in RleTags
                                        THEN token(p) ELSE [tag |-> "skip"]],
                 LAMBDA t : t.tag # "skip")

RefTokens(content) ==
    LET all == Join([n \in DOMAIN RefDataLines(content) |->
                        RefLineTokens(RefDataLines(content)[n])])
        ends == {j \in DOMAIN all : all[j].tag = "!"}
    IN IF ends = {} THEN all
       ELSE SubSeq(all, 1, (CHOOSE j \in ends : \A k \in ends : j <= k) - 1)

\* The live cells of a token stream: each <n>o gives n cells in the row and
\* from the column reached by the tokens before it.
RefCells(tokens) ==
    LET rowAt(j) == SumSeq([k \in 0..(j - 1) |->
                              IF k > 0 /\ tokens[k].tag = "$"
                              THEN tokens[k].count ELSE 0], j - 1)
        lastBreak(j) == IF \E k \in 1..(j - 1) : tokens[k].tag = "$"
                        THEN CHOOSE k \in 1..(j - 1) :
                                /\ tokens[k].tag = "$"
                                /\ \A q \in (k + 1)..(j - 1) : tokens[q].tag # "$"
                        ELSE 0
        colAt(j) == SumSeq([k \in 0..(j - 1) |->
                              IF k > lastBreak(j) THEN tokens[k].count ELSE 0],
                           j - 1)
    IN UNION {{<<rowAt(j), colAt(j) + n>> : n \in 0..(tokens[j].count - 1)} :
                 j \in {k \in DOMAIN tokens : tokens[k].tag = "o"}}

\* C17: RLE decoding yields exactly the cells of the reference decoding, in
\* which the first '!' ends the pattern for the rest of its line and for every
\* later line (no cells at all is a parse error), and "2o$2o!" decodes to
\* (0,0), (0,1), (1,0), (1,1).
C17_RleMatchesReference ==
    ret.op = "_parse_rle" =>
        /\ IF RefCells(RefTokens(frame.content)) = {}
           THEN ret.kind = "raise"
           ELSE /\ ret.kind = "return"
                /\ {ret.cells[i] : i \in DOMAIN ret.cells}
                      = RefCells(RefTokens(frame.content))
        /\ frame.content = <<"2", "o", "$", "2", "o", "!">> =>
              /\ ret.kind = "return"
              /\ ret.cells = <<<<0, 0>>, <<0, 1>>, <<1, 0>>, <<1, 1>>>>

\* The same with the end mark honoured only within its own line: the cells are
\* those of the reference decoding of each data line cut at its first '!', the
\* position carried from line to line.
RleEndMarkWithinLineOnly ==
    ret.op = "_parse_rle" =>
        LET cut(line) ==
                IF \E p \in DOMAIN line : line[p] = "!"
                THEN SubSeq(line, 1, (CHOOSE p \in DOMAIN line :
                        line[p] = "!" /\ \A q \in 1..(p - 1) : line[q] # "!") - 1)
                ELSE line
            tokens == Join([n \in DOMAIN RefDataLines(frame.content) |->
                              RefLineTokens(cut(RefDataLines(frame.content)[n]))])
        IN IF RefCells(tokens) = {}
           THEN ret.kind = "raise"
           ELSE /\ ret.kind = "return"
                /\ {ret.cells[i] : i \in DOMAIN ret.cells} = RefCells(tokens)

(***************************************************************************)
(* Registration and lookup of rules                                        *)
(***************************************************************************)
\* As dict_set, but an overwritten name moves to the end of the dict.
dict_set_move_to_end(reg, name, rule_class) ==
    SelectSeq(reg, LAMBDA e : e.name # name)
       \o <<[name |-> name, rule_class |-> rule_class]>>

\* cls._rules[name] = rule_class: a new key goes last, a key already there
\* keeps its place and takes the new value.
dict_set(reg, name, rule_class) ==
    IF HasRule(reg, name)
    THEN [i \in 1..Len(reg) |->
            IF reg[i].name = name
            THEN [name |-> name, rule_class |-> rule_class] ELSE reg[i]]
    ELSE Append(reg, [name |-> name, rule_class |-> rule_class])

\* add_rule_dynamically, lines 97-101: the class made by type(...) around
\* evolve_func, told by the function it wraps.
DynamicRuleClass(name, evolve_func) == evolve_func

\* RuleRegistry.register(name)(rule_class)
Register(name, rule_class) ==
    /\ pc = "Ready"
    /\ registry' = dict_set(registry, name, rule_class)
    /\ ret' = [kind |-> "return", op |-> "register", name |-> name,
               value |-> rule_class]
    /\ UNCHANGED <<heap, sims, pc, frame, callback_log>>

\* RuleRegistry.add_rule_dynamically(name, evolve_func)
AddRuleDynamically(name, evolve_func) ==
    /\ pc = "Ready"
    /\ registry' = dict_set(registry, name, DynamicRuleClass(name, evolve_func))
    /\ ret' = [kind |-> "return", op |-> "add_rule_dynamically", name |-> name,
               value |-> DynamicRuleClass(name, evolve_func)]
    /\ UNCHANGED <<heap, sims, pc, frame, callback_log>>

\* RuleRegistry.list_rules()
ListRulesCall ==
    /\ pc = "Ready"
    /\ ret' = [kind |-> "return", op |-> "list_rules",
               value |-> list_rules(registry)]
    /\ UNCHANGED <<heap, registry, sims, pc, frame, callback_log>>

\* The names registered by the driver, the classes it registers and the
\* functions it hands to add_rule_dynamically.
RegisterNames == {"standard", "custom_test", "conway"}
RegisterClasses == {"HighLifeRules"}
EvolveFuncs == {"custom_evolve"}

InitRegistry ==
    /\ InitSim({b \in SimBoards : b.cells = {}})
    /\ sims[1].rule_name = "standard"

NextRegistry ==
    \/ \E name \in RegisterNames, rule_class \in RegisterClasses :
          Register(name, rule_class)
    \/ \E name \in RegisterNames, evolve_func \in EvolveFuncs :
          AddRuleDynamically(name, evolve_func)
    \/ ListRulesCall
    \/ \E name \in NameArgs : GetRuleCall(name)
    \/ \E board \in DOMAIN heap.boards, name \in NameArgs :
          SimulatorCall(board, name, MaxSims)

SpecRegistry == InitRegistry /\ [][NextRegistry]_vars

IsRegistration ==
    pc = "Ready" /\ ret'.op \in {"register", "add_rule_dynamically"}

NamesOf(reg) == [i \in DOMAIN reg |-> reg[i].name]

\* C18: after any sequence of registrations the list of names holds every
\* registered name exactly once, in the order of first registration: a new
\* name goes last, and registering under an existing name raises nothing,
\* leaves the name's place and every other entry as they were, and makes the
\* lookup of the name give the implementation just registered; list_rules
\* returns that list.
C18_RegistryOrderAndOverwrite ==
    [][/\ \A i, j \in DOMAIN registry' :
             registry'[i].name = registry'[j].name => i = j
       /\ IsRegistration =>
             /\ ret'.kind = "return"
             /\ NamesOf(registry') =
                   IF \E i \in DOMAIN registry : registry[i].name = ret'.name
                   THEN NamesOf(registry)
                   ELSE Append(NamesOf(registry), ret'.name)
             /\ \A i \in DOMAIN registry :
                   registry[i].name # ret'.name => registry'[i] = registry[i]
             /\ \E i \in DOMAIN registry' :
                   /\ registry'[i].name = ret'.name
                   /\ registry'[i].rule_class = ret'.value
       /\ (pc = "Ready" /\ ret'.op = "list_rules") =>
             ret'.value = NamesOf(registry)
       /\ (pc = "Ready" /\ ret'.op = "get_rule" /\ ret'.kind = "return") =>
             \E i \in DOMAIN registry :
                /\ registry[i].name = ret'.name
                /\ registry[i].rule_class = ret'.value]_vars

C18_Witness ==
    /\ ret.op = "register"
    /\ ret.name = "standard"
    /\ ret.value = "HighLifeRules"
    /\ NamesOf(registry) =
          <<"standard", "highlife", "day_and_night", "conway", "custom_test">>
    /\ registry[1].rule_class = "HighLifeRules"
    /\ registry[5].rule_class = "custom_evolve"

IsLookup == pc = "Ready" /\ ret'.op \in {"get_rule", "Simulator"}

\* C19: looking up a name that is not registered raises the error of get_rule
\* with the requested name and exactly the names registered at that moment,
\* in their order, and leaves the registry as it was; Simulator(board, name)
\* with such a name raises the same error and no simulator comes to exist.
\* A lookup or a construction that returns was given a registered name.
C19_UnknownRuleRaises ==
    [][IsLookup =>
          IF ret'.kind = "raise"
          THEN /\ \A i \in DOMAIN registry : registry[i].name # ret'.name
               /\ ret'.error = "ValueError"
               /\ ret'.available = NamesOf(registry)
               /\ registry' = registry
               /\ sims' = sims
               /\ heap' = heap
          ELSE /\ ret'.kind = "return"
               /\ registry' = registry
               /\ IF ret'.op = "get_rule"
                  THEN \E i \in DOMAIN registry : registry[i].name = ret'.name
                  ELSE /\ Len(sims') = Len(sims) + 1
                       /\ \E i \in DOMAIN registry :
                             /\ registry[i].name = sims'[ret'.value].rule_name
                             /\ registry[i].rule_class
                                   = sims'[ret'.value].rule_class]_vars

C19_Witness ==
    /\ ret.kind = "raise"
    /\ ret.op = "Simulator"
    /\ ret.name = "conway"
    /\ ret.available = <<"standard", "highlife", "day_and_night", "custom_test">>
    /\ Len(sims) = 1

(***************************************************************************)
(* Two simulators, both constructed on the same Board object.              *)
(***************************************************************************)
\* The boards a behaviour of the two simulators may allocate.
MaxBoardsTwo == 3

InitTwo ==
    /\ \E b \in {sb \in SimBoards : sb.cells = {<<1, 0>>, <<1, 1>>, <<1, 2>>}} :
         heap = HeapWithBoard(b.width, b.height,
                              GridFromCells(b.width, b.height, b.cells))
    /\ registry = BuiltinRules
    /\ \E i, j \in 1..Len(BuiltinRules) :
          sims = << Simulator_init(BuiltinRules, 1, BuiltinRules[i].name),
                    Simulator_init(BuiltinRules, 1, BuiltinRules[j].name) >>
    /\ pc = "Ready"
    /\ frame = NoFrame
    /\ ret = NoRet
    /\ callback_log = << >>

NextTwo ==
    \/ \E s \in DOMAIN sims : Step(s, MaxBoardsTwo)
    \/ \E s \in DOMAIN sims, generations \in 0..MaxGenArg,
          save_history \in BOOLEAN :
          RunCall(s, generations, FALSE, save_history, MaxBoardsTwo)
    \/ RunIter(MaxBoardsTwo)
    \/ RunReturn
    \/ \E s \in DOMAIN sims, max_generations \in OptInt :
          RunUntilStableCall(s, max_generations, 1)
    \/ RunUntilStableIter(MaxBoardsTwo)
    \/ RunUntilStableExhausted
    \/ \E s \in DOMAIN sims, board \in {0} \cup DOMAIN heap.boards :
          Reset(s, board)

SpecTwo == InitTwo /\ [][NextTwo]_vars

\* The simulator a step belongs to.
Actor ==
    IF pc # "Ready" THEN frame.sim
    ELSE IF pc' # "Ready" THEN frame'.sim ELSE ret'.sim

\* The board a simulator holds and the snapshots of its history.
BoardsOf(s) == {sims[s].board} \cup Snapshots(s)

\* C20: of two simulators, also two constructed on the very same Board, a
\* step, run, run_until_stable or reset of one leaves the other's fields, the
\* cells and generation of the board it holds and of every snapshot of its
\* history as they were.
C20_OtherSimulatorUntouched ==
    [][\A o \in DOMAIN sims :
          o # Actor =>
             /\ sims'[o] = sims[o]
             /\ \A b \in BoardsOf(o) :
                   /\ GridOf(heap', b) = GridOf(heap, b)
                   /\ heap'.boards[b].generation = heap.boards[b].generation]_vars

\* Simulator 1 has stepped and run with its history saved while simulator 2
\* still holds the board both were constructed on, at generation 0.
C20_Witness ==
    /\ pc = "Ready"
    /\ ret.op = "run"
    /\ ret.sim = 1
    /\ Len(sims[1].history) >= 2
    /\ sims[1].board # 1
    /\ sims[2].board = 1
    /\ heap.boards[1].generation = 0
    /\ AliveCells(GridOf(heap, 1)) = {<<1, 0>>, <<1, 1>>, <<1, 2>>}
    /\ AliveCells(GridOf(heap, sims[1].board)) # AliveCells(GridOf(heap, 1))

(***************************************************************************)
(* A board on its own: set_cell, get_cell, count_neighbors, clear, copy.   *)
(***************************************************************************)
\* board.set_cell(row, col, value), refused or accepted
SetCellCall(board, row, col, value) ==
    /\ pc = "Ready"
    /\ IF SetCellError(heap, board, row, col, value) # "none"
       THEN /\ ret' = [kind |-> "raise", op |-> "set_cell",
                       error |-> SetCellError(heap, board, row, col, value),
                       board |-> board, row |-> row, col |-> col,
                       value |-> value]
            /\ UNCHANGED heap
       ELSE /\ heap' = set_cell(heap, board, row, col, value)
            /\ ret' = [kind |-> "return", op |-> "set_cell", board |-> board,
                       row |-> row, col |-> col, value |-> value]
    /\ UNCHANGED <<registry, sims, pc, frame, callback_log>>

\* The longest side of the boards a bare board is constructed with.
MaxSide == 2

\* board = Board(width, height), any cells set, generation as left by a rule.
InitBoard ==
    /\ \E width \in 1..MaxSide, height \in 1..MaxSide,
          generation \in 0..MaxGeneration :
         \E g \in AllGrids(width, height) :
            heap = [HeapWithBoard(width, height, g) EXCEPT
                       !.boards[1].generation = generation]
    /\ registry = BuiltinRules
    /\ sims = << >>
    /\ pc = "Ready"
    /\ frame = NoFrame
    /\ ret = NoRet
    /\ callback_log = << >>

\* Rows and columns from one before the first to one after the last.
NextSetCell ==
    \E board \in DOMAIN heap.boards :
       \E row \in -1..heap.boards[board].height,
          col \in -1..heap.boards[board].width,
          value \in ValueArgs :
          SetCellCall(board, row, col, value)

SpecSetCell == InitBoard /\ [][NextSetCell]_vars

IsSetCellCall == pc = "Ready" /\ ret'.op = "set_cell"

\* C21: set_cell raises IndexError when (row, col) is outside
\* [0, height) x [0, width), also when the value is invalid too, and ValueError
\* when the position is inside and the value is neither 0 nor 1; a refused
\* call changes no cell and no counter; an accepted call gives that one cell
\* the value and leaves every other cell, the dimensions and the generation
\* as they were.
C21_SetCellOutcome ==
    [][IsSetCellCall =>
          LET b == ret'.board
              row == ret'.row
              col == ret'.col
              inside == /\ 0 <= row /\ row < heap.boards[b].height
                        /\ 0 <= col /\ col < heap.boards[b].width
          IN IF ~inside
             THEN /\ ret'.kind = "raise" /\ ret'.error = "IndexError"
                  /\ heap' = heap
             ELSE IF ret'.value \notin {0, 1}
                  THEN /\ ret'.kind = "raise" /\ ret'.error = "ValueError"
                       /\ heap' = heap
                  ELSE /\ ret'.kind = "return"
                       /\ GridOf(heap', b) =
                             [GridOf(heap, b) EXCEPT ![row][col] = ret'.value]
                       /\ heap'.boards = heap.boards]_vars

\* A write outside the board with an invalid value as well.
C21_Witness ==
    /\ ret.op = "set_cell"
    /\ ret.kind = "raise"
    /\ ret.error = "IndexError"
    /\ ret.row = 0
    /\ ret.col = heap.boards[1].width
    /\ ret.value = 2
    /\ heap.boards[1].height = 2
    /\ count_alive(heap, 1) = 3

(***************************************************************************)
(* Construction of boards                                                  *)
(***************************************************************************)
\* The boards a behaviour constructs.
MaxConstructed == 1

\* Widths and heights at and around both limits.
LimitArgs == {-1, 0, 1, 2, MAX_DIMENSION, MAX_DIMENSION + 1}

InitConstruct ==
    /\ heap = EmptyHeap
    /\ registry = BuiltinRules
    /\ sims = << >>
    /\ pc = "Ready"
    /\ frame = NoFrame
    /\ ret = NoRet
    /\ callback_log = << >>

\* Every pair of them but the one whose board has a million cells.
ConstructArgs ==
    {wh \in LimitArgs \X LimitArgs :
        ~(wh[1] = MAX_DIMENSION /\ wh[2] = MAX_DIMENSION)}

NextConstruct ==
    \E wh \in ConstructArgs : BoardCall(wh[1], wh[2], MaxConstructed)

SpecConstruct == InitConstruct /\ [][NextConstruct]_vars

IsBoardCall == pc = "Ready" /\ ret'.op = "Board"

\* C22: Board(width, height) raises InvalidDimensionError exactly when width
\* or height is <= 0 or > 1000, so 1 and 1000 are accepted and 0 and 1001
\* refused, and nothing is constructed then; otherwise the new board has
\* height rows of width cells, all 0, and generation 0.
C22_ConstructionLimits ==
    [][IsBoardCall =>
          IF \/ ret'.width <= 0 \/ ret'.height <= 0
             \/ ret'.width > 1000 \/ ret'.height > 1000
          THEN /\ ret'.kind = "raise"
               /\ ret'.error = "InvalidDimensionError"
               /\ heap' = heap
          ELSE /\ ret'.kind = "return"
               /\ ret'.value = Len(heap.boards) + 1
               /\ Len(heap'.boards) = Len(heap.boards) + 1
               /\ heap'.boards[ret'.value].width = ret'.width
               /\ heap'.boards[ret'.value].height = ret'.height
               /\ heap'.boards[ret'.value].generation = 0
               /\ GridOf(heap', ret'.value) =
                     [r \in 0..(ret'.height - 1) |->
                        [c \in 0..(ret'.width - 1) |-> 0]]
               /\ \A b \in DOMAIN heap.boards :
                     /\ heap'.boards[b] = heap.boards[b]
                     /\ GridOf(heap', b) = GridOf(heap, b)]_vars

\* A board of the largest width was constructed, and a height one above the
\* limit was refused after it.
C22_Witness ==
    /\ Len(heap.boards) = 1
    /\ heap.boards[1].width = 1000
    /\ heap.boards[1].height = 2
    /\ \A r \in 0..1, c \in 0..999 : Cell(heap, 1, r, c) = 0
    /\ ret.op = "Board"
    /\ ret.kind = "raise"
    /\ ret.width = 1
    /\ ret.height = 1001

(***************************************************************************)
(* Reading a board: get_cell and count_neighbors, one call on any board.   *)
(***************************************************************************)
\* board.get_cell(row, col)
GetCellCall(board, row, col) ==
    /\ pc = "Ready"
    /\ ret.op = "none"
    /\ ret' = [kind |-> "return", op |-> "get_cell", board |-> board,
               row |-> row, col |-> col,
               value |-> get_cell(heap, board, row, col)]
    /\ UNCHANGED <<heap, registry, sims, pc, frame, callback_log>>

\* board.count_neighbors(row, col)
CountNeighborsCall(board, row, col) ==
    /\ pc = "Ready"
    /\ ret.op = "none"
    /\ ret' = [kind |-> "return", op |-> "count_neighbors", board |-> board,
               row |-> row, col |-> col,
               value |-> count_neighbors(heap, board, row, col)]
    /\ UNCHANGED <<heap, registry, sims, pc, frame, callback_log>>

\* Any board of at most MaxCells cells, with any cells set.
InitRead ==
    /\ \E wh \in Shapes : \E g \in AllGrids(wh[1], wh[2]) :
          heap = HeapWithBoard(wh[1], wh[2], g)
    /\ registry = BuiltinRules
    /\ sims = << >>
    /\ pc = "Ready"
    /\ frame = NoFrame
    /\ ret = NoRet
    /\ callback_log = << >>

\* get_cell from one before the first row and column to one after the last,
\* count_neighbors at every cell.
NextRead ==
    \/ \E row \in -1..heap.boards[1].height, col \in -1..heap.boards[1].width :
          GetCellCall(1, row, col)
    \/ \E row \in 0..(heap.boards[1].height - 1),
          col \in 0..(heap.boards[1].width - 1) :
          CountNeighborsCall(1, row, col)

SpecRead == InitRead /\ [][NextRead]_vars

\* The positions around (row, col), the cell itself left out.
Moore(row, col) ==
    {<<row + dr, col + dc>> : dr \in {-1, 0, 1}, dc \in {-1, 0, 1}}
       \ {<<row, col>>}

Inside(b, rc) ==
    /\ 0 <= rc[1] /\ rc[1] < heap.boards[b].height
    /\ 0 <= rc[2] /\ rc[2] < heap.boards[b].width

GetCellOutsideReached ==
    /\ ret.op = "get_cell"
    /\ ret.row = -1
    /\ ret.col = heap.boards[1].width
    /\ Cell(heap, 1, 0, heap.boards[1].width - 1) = 1
    /\ ret.value = 0


(***************************************************************************)
(* A board and its copies: copy, then set_cell and clear on either side.   *)
(***************************************************************************)
\* The copies and the clears a behaviour may make.
MaxCopies == 1
MaxClears == 1

\* Board(width, height) for the shapes of one or two cells: one row list of
\* one or two cells, or two row lists.
CopyShapes == {<<1, 1>>, <<2, 1>>, <<1, 2>>}

\* board = Board(width, height), any cells set, generation as left by a rule.
InitCopy ==
    /\ \E wh \in CopyShapes, generation \in 0..MaxGeneration :
         \E g \in AllGrids(wh[1], wh[2]) :
            heap = [HeapWithBoard(wh[1], wh[2], g) EXCEPT
                       !.boards[1].generation = generation]
    /\ registry = BuiltinRules
    /\ sims = << >>
    /\ pc = "Ready"
    /\ frame = NoFrame
    /\ ret = NoRet
    /\ callback_log = << >>

\* copy, set_cell and clear on the board and on every copy of it; the row
\* lists no board holds any more are those that MaxClears clears left behind.
NextCopy ==
    \E board \in DOMAIN heap.boards :
       \/ CopyCall(board, 1 + MaxCopies)
       \/ ClearCall(board, heap.boards[board].height
                                * (Len(heap.boards) + MaxClears))
       \/ \E row \in 0..(heap.boards[board].height - 1),
             col \in 0..(heap.boards[board].width - 1),
             value \in {0, 1} :
             SetCellCall(board, row, col, value)

SpecCopy == InitCopy /\ [][NextCopy]_vars

\* The row lists a board holds.
RowsOf(h, b) == {h.boards[b].grid[r] : r \in DOMAIN h.boards[b].grid}

SameBoard(h1, b1, h2, b2) ==
    /\ h1.boards[b1].width = h2.boards[b2].width
    /\ h1.boards[b1].height = h2.boards[b2].height
    /\ h1.boards[b1].generation = h2.boards[b2].generation
    /\ GridOf(h1, b1) = GridOf(h2, b2)

\* C24: copy returns a new board with the dimensions, the cells and the
\* generation of the source, whose row lists are its own (none is a row list
\* of another board), and leaves every existing board as it was; a set_cell
\* or a clear on one board, source or copy, leaves every other board's
\* dimensions, cells and generation unchanged.
C24_CopyIsIndependent ==
    [][/\ ret'.op = "copy" =>
            /\ ret'.value \notin DOMAIN heap.boards
            /\ ret'.value \in DOMAIN heap'.boards
            /\ SameBoard(heap', ret'.value, heap, ret'.board)
            /\ Cardinality(RowsOf(heap', ret'.value)) = heap.boards[ret'.board].height
            /\ \A o \in DOMAIN heap.boards :
                  /\ SameBoard(heap', o, heap, o)
                  /\ RowsOf(heap', o) \cap RowsOf(heap', ret'.value) = {}
       /\ ret'.op \in {"set_cell", "clear"} =>
            \A o \in DOMAIN heap.boards \ {ret'.board} :
               /\ o \in DOMAIN heap'.boards
               /\ SameBoard(heap', o, heap, o)]_vars

\* A full board of two rows and generation 1 was copied and the copy was
\* cleared: the source still has its two cells and its generation.
C24_Witness ==
    /\ Len(heap.boards) = 2
    /\ ret.op = "clear"
    /\ ret.board = 2
    /\ heap.boards[1].generation = 1
    /\ heap.boards[1].height = 2
    /\ count_alive(heap, 1) = 2
    /\ heap.boards[2].generation = 0
    /\ count_alive(heap, 2) = 0

\* A copy was written to and now differs from its source in one cell.
CopyDiverged ==
    /\ Len(heap.boards) = 2
    /\ ret.op = "set_cell"
    /\ ret.kind = "return"
    /\ ret.board = 1
    /\ heap.boards[1].width = 2
    /\ count_alive(heap, 1) = 1
    /\ count_alive(heap, 2) = 0
    /\ heap.boards[2].generation = 1


(***************************************************************************)
(* reset of a simulator that has stepped and recorded a history.           *)
(***************************************************************************)
MaxBoardsReset == 5

\* board = Board(3, 3) with a blinker; sim = Simulator(board, name);
\* other = Board(2, 1) with one cell set, at generation 1.
InitReset ==
    /\ \E b \in {sb \in SimBoards : sb.cells = {<<1, 0>>, <<1, 1>>, <<1, 2>>}} :
         LET h1 == HeapWithBoard(b.width, b.height,
                                 GridFromCells(b.width, b.height, b.cells))
             nb == Board_init(h1, 2, 1)
             h2 == set_cell(nb.heap, nb.ref, 0, 0, 1)
         IN heap = [h2 EXCEPT !.boards[nb.ref].generation = 1]
    /\ registry = BuiltinRules
    /\ \E i \in 1..Len(BuiltinRules) :
          sims = << Simulator_init(BuiltinRules, 1, BuiltinRules[i].name) >>
    /\ pc = "Ready"
    /\ frame = NoFrame
    /\ ret = NoRet
    /\ callback_log = << >>

\* step, run with and without history, reset() and reset(board) with every
\* board there is: the start board, the other board, evolved boards, snapshots.
NextReset ==
    \/ \E s \in DOMAIN sims : Step(s, MaxBoardsReset)
    \/ \E s \in DOMAIN sims, generations \in 0..MaxGenArg,
          save_history \in BOOLEAN :
          RunCall(s, generations, FALSE, save_history, MaxBoardsReset)
    \/ RunIter(MaxBoardsReset)
    \/ RunReturn
    \/ \E s \in DOMAIN sims, board \in {0} \cup DOMAIN heap.boards :
          Reset(s, board)

SpecReset == InitReset /\ [][NextReset]_vars

IsReset == pc = "Ready" /\ pc' = "Ready" /\ ret'.op = "reset"

\* C25: reset leaves the history empty; with a board given the simulator
\* holds that board, whose cells, dimensions and generation are as they were
\* before the call; with none given it holds the board it held, unchanged in
\* cells, dimensions and generation; rule class, rule name and every board
\* are as before.
C25_ResetFrame ==
    [][IsReset =>
          LET s == ret'.sim
              held == IF ret'.arg # 0 THEN ret'.arg ELSE sims[s].board
          IN /\ sims'[s].history = << >>
             /\ sims'[s].board = held
             /\ SameBoard(heap', held, heap, held)
             /\ sims'[s].rule_class = sims[s].rule_class
             /\ sims'[s].rule_name = sims[s].rule_name
             /\ sims'[s].max_generations = sims[s].max_generations
             /\ heap' = heap
             /\ registry' = registry]_vars

\* reset() after two generations: the simulator still holds the evolved
\* board at generation 2, not the board it was constructed on.
C25_Witness ==
    /\ ret.op = "reset"
    /\ ret.arg = 0
    /\ sims[1].history = << >>
    /\ sims[1].board \notin {1, 2}
    /\ heap.boards[sims[1].board].generation = 2
    /\ heap.boards[1].generation = 0
    /\ Len(heap.boards) = MaxBoardsReset

\* reset(other): the simulator holds the 2x1 board at generation 1.
ResetToOtherBoard ==
    /\ ret.op = "reset"
    /\ ret.arg = 2
    /\ sims[1].board = 2
    /\ heap.boards[sims[1].board].width = 2
    /\ heap.boards[sims[1].board].height = 1
    /\ heap.boards[sims[1].board].generation = 1
    /\ Cell(heap, 2, 0, 0) = 1
    /\ sims[1].history = << >>


(***************************************************************************)
(* The period run_until_stable reports with check_period >= 2.             *)
(***************************************************************************)
\* C26: whenever run_until_stable called with check_period >= 2 returns
\* oscillator_period_p, p counts generations: the final grid is
\* cell-identical to the simulator's grid exactly p generations earlier.
C26_PeriodCountsGenerations ==
    [][(/\ IsClassified
        /\ frame.check_period >= 2
        /\ ret'.stability = "oscillator_period") =>
          LET tr == TraceAfter
              p == ret'.period
          IN /\ p \in 1..(Len(tr) - 1)
             /\ tr[Len(tr)] = tr[Len(tr) - p]]_vars

\* What the code returns instead: p counts the snapshots recorded since the
\* matching one, which lie check_period generations apart.
PeriodCountsSnapshots ==
    [][(/\ IsClassified
        /\ ret'.stability = "oscillator_period") =>
          LET tr == TraceAfter
              p == ret'.period * frame.check_period
          IN /\ p \in 1..(Len(tr) - 1)
             /\ tr[Len(tr)] = tr[Len(tr) - p]]_vars

\* A blinker under check_period = 2 was classified oscillator_period_1 at
\* generation 3.
PeriodOneReported ==
    /\ ret.op = "run_until_stable"
    /\ ret.kind = "return"
    /\ ret.stability = "oscillator_period"
    /\ ret.period = 1
    /\ heap.boards[ret.value].generation = 3
    /\ AliveCells(GridOf(heap, ret.value)) = {<<0, 1>>, <<1, 1>>, <<2, 1>>}


(***************************************************************************)
(* The callback of run.                                                    *)
(***************************************************************************)
\* This step is an iteration of the loop of run.
IsRunIter == pc = "run" /\ pc' = "run" /\ frame'.gen = frame.gen + 1

\* C27: in run with a callback, iteration k of the loop (k = 1, 2, ...) calls
\* the callback once, after the step and before the snapshot is appended:
\* the call gets the board the simulator holds after the step, which is not
\* the board it held before, at the generation of step k, and the index k;
\* with save_history the history holds k entries at the call and k + 1 after
\* the iteration; the call is made also when the step left no live cell;
\* the calls so far are those of steps 1..k in order. Without a callback
\* nothing is called.
C27_CallbackOrder ==
    [][IsRunIter =>
          LET s == frame.sim
              k == frame.gen + 1
          IN IF frame.callback
             THEN /\ Len(callback_log) = k - 1
                  /\ Len(callback_log') = k
                  /\ SubSeq(callback_log', 1, k - 1) = callback_log
                  /\ callback_log'[k].gen = k
                  /\ callback_log'[k].board = sims'[s].board
                  /\ callback_log'[k].board # sims[s].board
                  /\ callback_log'[k].generation = frame.initial_generation + k
                  /\ heap'.boards[sims'[s].board].generation
                        = frame.initial_generation + k
                  /\ frame.save_history =>
                        /\ callback_log'[k].history_len = k
                        /\ Len(sims'[s].history) = k + 1
                  /\ \A i \in 1..k : callback_log'[i].gen = i
             ELSE callback_log' = callback_log /\ callback_log = << >>]_vars

\* A run with callback and history on the diagonal: the second step left no
\* live cell, the callback was called for it with two entries in the
\* history, and the loop is about to be left.
C27_Witness ==
    /\ pc = "run"
    /\ frame.callback
    /\ frame.save_history
    /\ frame.brk
    /\ frame.gen = 2
    /\ Len(callback_log) = 2
    /\ callback_log[2].gen = 2
    /\ callback_log[2].history_len = 2
    /\ callback_log[2].board = sims[frame.sim].board
    /\ count_alive(heap, callback_log[2].board) = 0
    /\ Len(sims[frame.sim].history) = 3


(***************************************************************************)
(* run_until_stable on a grid that starts on a cycle.                      *)
(***************************************************************************)
\* The number of steps after which the first grid of a trace came back for
\* the first time, when that is 2 or more; 0 otherwise.
CyclePeriod(tr) ==
    IF \E p \in 2..(Len(tr) - 1) :
          /\ tr[1 + p] = tr[1]
          /\ \A k \in 1..(p - 1) : tr[1 + k] # tr[1]
    THEN CHOOSE p \in 2..(Len(tr) - 1) :
            /\ tr[1 + p] = tr[1]
            /\ \A k \in 1..(p - 1) : tr[1 + k] # tr[1]
    ELSE 0

\* This step is the return of run_until_stable after its loop ran out.
IsExhausted == pc = "run_until_stable" /\ pc' = "Ready" /\ heap' = heap

\* C28: with check_period = 1 the snapshots of run_until_stable are the
\* grids after steps 1, 2, ...: the grid the call starts from is not among
\* them. So for a start grid that comes back first after p >= 2 steps, step p
\* does not end the call, step p + 1 ends it with oscillator_period_p at
\* generation initial + p + 1, and with max_generations = p the call returns
\* max_generations_reached on a grid equal to the one it started from.
C28_StartGridNotRecorded ==
    [][/\ (IsStableIter /\ frame.check_period = 1) =>
            LET tr == TraceAfter
                p == CyclePeriod(tr)
            IN /\ pc' = "run_until_stable" => frame'.previous_states = Tail(tr)
               /\ (p >= 2 /\ Len(tr) = p + 1) => pc' = "run_until_stable"
               /\ (p >= 2 /\ Len(tr) = p + 2) =>
                     /\ pc' = "Ready"
                     /\ ret'.stability = "oscillator_period"
                     /\ ret'.period = p
                     /\ heap'.boards[ret'.value].generation
                           = frame.initial_generation + p + 1
       /\ (IsExhausted /\ frame.check_period = 1) =>
            LET p == CyclePeriod(frame.trace)
            IN (p >= 2 /\ frame.max_generations = p) =>
                  /\ Len(frame.trace) = p + 1
                  /\ ret'.stability = "max_generations_reached"
                  /\ GridOf(heap', ret'.value) = frame.trace[1]
                  /\ heap'.boards[ret'.value].generation
                        = frame.initial_generation + p]_vars

\* run_until_stable(2, 1) on the blinker: after two steps the grid is the
\* start grid again, two snapshots are held, neither taken before the first
\* step, and the loop has run out.
C28_Witness ==
    /\ pc = "run_until_stable"
    /\ frame.check_period = 1
    /\ frame.max_generations = 2
    /\ frame.gen = 2
    /\ CyclePeriod(frame.trace) = 2
    /\ Len(frame.trace) = 3
    /\ frame.previous_states = Tail(frame.trace)
    /\ GridOf(heap, sims[frame.sim].board) = frame.trace[1]

\* run_until_stable(None, 1) on the blinker returned oscillator_period_2 at
\* generation 3.
PeriodTwoAtGenerationThree ==
    /\ ret.op = "run_until_stable"
    /\ ret.kind = "return"
    /\ ret.stability = "oscillator_period"
    /\ ret.period = 2
    /\ heap.boards[ret.value].generation = 3
    /\ heap.boards[1].generation = 0
    /\ GridOf(heap, ret.value) # GridOf(heap, 1)


(***************************************************************************)
(* Simulators and a registry whose names are bound again.                  *)
(***************************************************************************)
MaxBoardsRebind == 3

\* The name bound again, the classes registered under it, and the
\* function handed to add_rule_dynamically (DayAndNightRules.evolve).
RebindNames == {"standard"}
RebindClasses == {"StandardRules", "HighLifeRules", "DayAndNightRules"}
RebindFuncs == {"DayAndNightRules"}

\* board = Board(3, 3) with a blinker; sim = Simulator(board, 'standard')
InitRebind ==
    /\ \E b \in {sb \in SimBoards : sb.cells = {<<1, 0>>, <<1, 1>>, <<1, 2>>}} :
         heap = HeapWithBoard(b.width, b.height,
                              GridFromCells(b.width, b.height, b.cells))
    /\ registry = BuiltinRules
    /\ sims = << Simulator_init(BuiltinRules, 1, "standard") >>
    /\ pc = "Ready"
    /\ frame = NoFrame
    /\ ret = NoRet
    /\ callback_log = << >>

NextRebind ==
    \/ \E name \in RebindNames, rule_class \in RebindClasses :
          Register(name, rule_class)
    \/ \E name \in RebindNames, evolve_func \in RebindFuncs :
          AddRuleDynamically(name, evolve_func)
    \/ \E name \in RebindNames : GetRuleCall(name)
    \/ \E name \in RebindNames : SimulatorCall(1, name, MaxSims)
    \/ \E s \in DOMAIN sims : Step(s, MaxBoardsRebind)
    \/ \E s \in DOMAIN sims, generations \in 0..MaxGenArg :
          RunCall(s, generations, FALSE, FALSE, MaxBoardsRebind)
    \/ RunIter(MaxBoardsRebind)
    \/ RunReturn
    \/ \E s \in DOMAIN sims, max_generations \in OptInt :
          RunUntilStableCall(s, max_generations, 1)
    \/ RunUntilStableIter(MaxBoardsRebind)
    \/ RunUntilStableExhausted

SpecRebind == InitRebind /\ [][NextRebind]_vars

\* The grid a rule class gives for the board a simulator holds.
GridUnder(cls, h, board) ==
    LET e == evolve(cls, h, board) IN GridOf(e.heap, e.ref)

\* C29: a simulator keeps the rule class that get_rule returned at its
\* construction. Binding a name again makes get_rule return the new class
\* and changes no simulator; every step of step, run and run_until_stable
\* yields the grid that the simulator's own class gives, whatever the
\* registry holds under its name by then; a simulator constructed later
\* holds the class registered at that time.
C29_RuleResolvedAtConstruction ==
    [][/\ \A s \in DOMAIN sims :
             /\ sims'[s].rule_class = sims[s].rule_class
             /\ sims'[s].rule_name = sims[s].rule_name
             /\ sims'[s].board # sims[s].board =>
                   GridOf(heap', sims'[s].board)
                      = GridUnder(sims[s].rule_class, heap, sims[s].board)
       /\ (pc = "Ready" /\ ret'.op \in {"register", "add_rule_dynamically"}) =>
             /\ get_rule(registry', ret'.name) = ret'.value
             /\ sims' = sims
             /\ heap' = heap
       /\ (pc = "Ready" /\ ret'.op = "get_rule" /\ ret'.kind = "return") =>
             ret'.value = get_rule(registry, ret'.name)
       /\ (pc = "Ready" /\ ret'.op = "Simulator" /\ ret'.kind = "return"
             /\ Len(sims') > Len(sims)) =>
             /\ sims'[ret'.value].rule_class
                   = get_rule(registry, sims'[ret'.value].rule_name)
             /\ sims'[ret'.value].rule_name \in RebindNames]_vars

\* 'standard' was bound to DayAndNightRules after simulator 1 was
\* constructed and before simulator 2 was: both were then stepped from the
\* same blinker, simulator 1 to the upright blinker of the standard rule,
\* simulator 2 to the two cells of day and night.
C29_Witness ==
    /\ Len(sims) = 2
    /\ sims[1].rule_name = "standard"
    /\ sims[2].rule_name = "standard"
    /\ sims[1].rule_class = "StandardRules"
    /\ sims[2].rule_class = "DayAndNightRules"
    /\ get_rule(registry, "standard") = "DayAndNightRules"
    /\ sims[1].board # 1
    /\ sims[2].board # 1
    /\ AliveCells(GridOf(heap, sims[1].board)) = {<<0, 1>>, <<1, 1>>, <<2, 1>>}
    /\ AliveCells(GridOf(heap, sims[2].board)) = {<<0, 1>>, <<2, 1>>}


(***************************************************************************)
(* PatternParser.parse behind memoize_pattern.  The files of the process   *)
(* and the cache of the decorator are kept in frame: files maps the names  *)
(* of the files that exist to their text, cache maps the names parsed with *)
(* success to the result returned, failed holds the names whose parse      *)
(* raised.                                                                 *)
(***************************************************************************)
UpperChars == <<"A", "G", "L", "N", "O", "X">>
LowerChars == <<"a", "g", "l", "n", "o", "x">>

\* str.lower(), on the letters the texts are made of
lower(str) ==
    [i \in 1..Len(str) |->
        IF \E k \in DOMAIN UpperChars : UpperChars[k] = str[i]
        THEN LowerChars[CHOOSE k \in DOMAIN UpperChars : UpperChars[k] = str[i]]
        ELSE str[i]]

\* pattern in str
Contains(str, pattern) ==
    \E i \in 1..(Len(str) - Len(pattern) + 1) :
       SubSeq(str, i, i + Len(pattern) - 1) = pattern

\* PatternParser._is_rle_format
is_rle_format(content) ==
    \/ Contains(lower(content), <<"x", " ", "=", " ">>)
    \/ Contains(content, <<"#", "L", "i", "f", "e">>)

\* The whitespace \s* takes at position i of line.
RECURSIVE WhitespaceRun(_, _)
WhitespaceRun(line, i) ==
    IF i <= Len(line) /\ line[i] \in Whitespace
    THEN 1 + WhitespaceRun(line, i + 1) ELSE 0

\* re.match(COORDINATE_PATTERN, line): an optional "(", digits, a comma,
\* digits, with whitespace allowed around each.
CoordinateMatch(line) ==
    LET a == IF line # << >> /\ line[1] = "(" THEN 2 ELSE 1
        b == a + WhitespaceRun(line, a)
        d1 == DigitRun(line, b)
        c == b + d1 + WhitespaceRun(line, b + d1)
        e == c + 1 + WhitespaceRun(line, c + 1)
        d2 == DigitRun(line, e)
    IN IF d1 > 0 /\ c <= Len(line) /\ line[c] = "," /\ d2 > 0
       THEN [ok |-> TRUE, row |-> int_str(SubSeq(line, b, b + d1 - 1)),
             col |-> int_str(SubSeq(line, e, e + d2 - 1))]
       ELSE [ok |-> FALSE, row |-> 0, col |-> 0]

\* PatternParser._is_coordinate_format
is_coordinate_format(content) ==
    LET lines == SelectSeq(split(content),
                           LAMBDA line : strip(line) # << >>
                                         /\ ~startswith(line, <<"#">>))
    IN lines # << >> /\ CoordinateMatch(strip(lines[1])).ok

\* PatternParser._parse_coordinates, lines 124-143: the loop over the lines.
RECURSIVE coordinates_lines(_, _)
coordinates_lines(lines, acc) ==
    IF lines = << >> THEN acc
    ELSE LET line == strip(Head(lines))
             comment == strip(From(line, 1))
             match == CoordinateMatch(line)
         IN coordinates_lines(Tail(lines),
              IF line = << >> THEN acc
              ELSE IF startswith(line, <<"#">>)
              THEN IF startswith(comment, <<"N", " ">>)
                   THEN [acc EXCEPT !.name = strip(From(comment, 2))]
                   ELSE [acc EXCEPT !.comments = Append(@, comment)]
              ELSE IF match.ok
              THEN [acc EXCEPT !.cells = Append(@, <<match.row, match.col>>)]
              ELSE acc)

\* PatternParser._parse_coordinates
parse_coordinates(content, filename) ==
    LET acc == coordinates_lines(split(content),
                   [cells |-> << >>, name |-> filename, comments |-> << >>])
    IN IF acc.cells = << >>
       THEN [kind |-> "raise", error |-> "PatternParseError"]
       ELSE [kind |-> "return", name |-> acc.name, cells |-> acc.cells,
             comments |-> acc.comments, format |-> "coordinates"]

\* PatternParser.parse, the undecorated function: open and read, then the
\* parser of the format detected.
parse(files, filename) ==
    IF filename \notin DOMAIN files
    THEN [kind |-> "raise", error |-> "FileHandlingError"]
    ELSE IF is_rle_format(files[filename])
    THEN parse_rle(files[filename], filename)
    ELSE IF is_coordinate_format(files[filename])
    THEN parse_coordinates(files[filename], filename)
    ELSE parse_plaintext(files[filename], filename)

\* d[key] = value on a dict held as a function
dict_put(d, key, value) ==
    [k \in DOMAIN d \cup {key} |-> IF k = key THEN value ELSE d[k]]

\* As memoize_pattern, but the file is parsed at every call.
memoize_pattern_fresh(cache, files, filename) ==
    LET r == parse(files, filename)
    IN [cache |-> IF r.kind = "raise" THEN cache ELSE dict_put(cache, filename, r),
        result |-> r, read |-> TRUE]

\* memoize_pattern, the wrapper: func is called for a name not in the cache
\* and its result stored; an exception of func leaves the cache as it was.
memoize_pattern(cache, files, filename) ==
    IF filename \notin DOMAIN cache
    THEN LET r == parse(files, filename)
         IN [cache |-> IF r.kind = "raise" THEN cache
                       ELSE dict_put(cache, filename, r),
             result |-> r, read |-> TRUE]
    ELSE [cache |-> cache, result |-> cache[filename], read |-> FALSE]

\* PatternParser.parse(filename), the decorated function
ParseCall(filename) ==
    /\ pc = "Ready"
    /\ \E m \in {memoize_pattern(frame.cache, frame.files, filename)} :
          /\ frame' = [frame EXCEPT
                         !.cache = m.cache,
                         !.failed = IF m.result.kind = "raise"
                                    THEN @ \cup {filename} ELSE @]
          /\ ret' = [kind |-> m.result.kind, op |-> "parse",
                     filename |-> filename, result |-> m.result,
                     read |-> m.read]
    /\ UNCHANGED <<heap, registry, sims, pc, callback_log>>

\* PatternParser.save_pattern(filename, board, name), the file rewritten
SavePatternTo(filename, board, name) ==
    /\ pc = "Ready"
    /\ frame' = [frame EXCEPT
                   !.files = dict_put(@, filename,
                                      save_pattern(heap, board, name, << >>))]
    /\ ret' = [kind |-> "return", op |-> "save_pattern", filename |-> filename,
               board |-> board, name |-> name]
    /\ UNCHANGED <<heap, registry, sims, pc, callback_log>>

\* The second file name of the driver, and the texts it may hold at the
\* start: a coordinate list, an RLE text.
OtherFile == <<"q", ".", "t", "x", "t">>
CacheFiles == {PatternFile, OtherFile}
CoordinateText == <<"(", "0", ",", " ", "1", ")", "\n">>
RleText == <<"x", " ", "=", " ", "1", "\n", "o", "!", "\n">>

\* Three 2x1 boards: no live cell, cell (0, 0), cell (0, 1). No file, or
\* OtherFile with a coordinate list or an RLE text; nothing parsed yet.
InitCache ==
    /\ LET h1 == HeapWithBoard(2, 1, GridFromCells(2, 1, {}))
           b2 == Board_init(h1, 2, 1)
           h2 == set_cell(b2.heap, b2.ref, 0, 0, 1)
           b3 == Board_init(h2, 2, 1)
       IN heap = set_cell(b3.heap, b3.ref, 0, 1, 1)
    /\ registry = BuiltinRules
    /\ sims = << >>
    /\ pc = "Ready"
    /\ \E files \in {<< >>} \cup {dict_put(<< >>, OtherFile, text) :
                                     text \in {CoordinateText, RleText}} :
          frame = [op |-> "files", files |-> files, cache |-> << >>,
                   failed |-> {}]
    /\ ret = NoRet
    /\ callback_log = << >>

NextCache ==
    \/ \E filename \in CacheFiles : ParseCall(filename)
    \/ \E filename \in CacheFiles, board \in DOMAIN heap.boards,
          name \in {<< >>, <<"O">>} :
          SavePatternTo(filename, board, name)

SpecCache == InitCache /\ [][NextCache]_vars

IsParseCall == pc = "Ready" /\ ret'.op = "parse"

\* C30: parse keeps the result of the first successful parse of a file name
\* and returns it at every later call for that name without reading the
\* file, whatever was written to the file in between; a call that raises
\* (no such file, no cell found) stores nothing, and the next call for that
\* name reads the file as it is then; writing a file changes no stored
\* result.
C30_ParseCachedPerFilename ==
    [][/\ \A f \in DOMAIN frame.cache :
             f \in DOMAIN frame'.cache /\ frame'.cache[f] = frame.cache[f]
       /\ ~IsParseCall => frame'.cache = frame.cache
       /\ IsParseCall =>
             LET f == ret'.filename
             IN IF f \in DOMAIN frame.cache
                THEN /\ ret'.kind = "return"
                     /\ ret'.result = frame.cache[f]
                     /\ ~ret'.read
                     /\ frame'.cache = frame.cache
                ELSE /\ ret'.read
                     /\ ret'.kind = parse(frame.files, f).kind
                     /\ IF ret'.kind = "raise"
                        THEN /\ ret'.result.error = parse(frame.files, f).error
                             /\ frame'.cache = frame.cache
                        ELSE /\ ret'.result = parse(frame.files, f)
                             /\ DOMAIN frame'.cache = DOMAIN frame.cache \cup {f}
                             /\ frame'.cache[f] = ret'.result]_vars

\* A parse of PatternFile returned the stored result without reading the
\* file, while the file, rewritten since, parses to other cells now.
C30_Witness ==
    /\ ret.op = "parse"
    /\ ret.filename = PatternFile
    /\ ret.kind = "return"
    /\ ~ret.read
    /\ parse(frame.files, PatternFile).kind = "return"
    /\ parse(frame.files, PatternFile).cells # ret.result.cells

\* A parse that raised stored nothing: a later parse of the same name read
\* the file and returned.
ParsedAfterFailure ==
    /\ ret.op = "parse"
    /\ ret.kind = "return"
    /\ ret.read
    /\ ret.filename \in frame.failed
    /\ ret.filename \in DOMAIN frame.cache

\* The three formats came to be stored.
AllFormatsParsed ==
    /\ DOMAIN frame.cache = CacheFiles
    /\ frame.cache[PatternFile].format = "plaintext"
    /\ frame.cache[OtherFile].format \in {"coordinates", "rle"}
    /\ frame.cache[OtherFile].cells \in {<< <<0, 1>> >>, << <<0, 0>> >>}

====
